---- MODULE Spec2Model ----
(***************************************************************************)
(* Verification model of argo-proxy.                                       *)
(*                                                                         *)
(* Part 1: utils/stream_decoder.py   (StreamDecoder, decode_stream_chunks) *)
(* Part 2: tool_calls/leaked_tool_parser.py                                *)
(* Part 3: tool_calls/google_helpers.py (GeminiToolCallConverter)          *)
(*         llmir/complex_ops.py (p_response_to_ir)                         *)
(*         types/llmir_impl.py (_send_llmir_non_streaming_request)         *)
(* Part 4: llmir/atomic_ops.py, llmir/complex_ops.py (IR <-> Argo wire)    *)
(* Part 5: utils/image_processing.py                                       *)
(* Part 6: the model registry: resolve_model_name, refresh_models          *)
(* Part 7: the chat endpoint and the answers built from upstream answers   *)
(* Part 8: streaming passthrough, utils/transports.py, request fields,     *)
(*         performance.py (OptimizedHTTPSession), sequential tool pairs    *)
(*                                                                         *)
(* Each part is a state machine of its own over the shared variables; the  *)
(* variables of the other parts stay at their idle values.                 *)
(***************************************************************************)
EXTENDS Integers, Sequences, FiniteSets, TLC

VARIABLES
    \* ---- part 1: stream decoder ----
    stream,          \* the bytes the upstream will deliver (chunk_iterator)
    pos,             \* number of bytes of stream already handed to decode
    pending_bytes,   \* StreamDecoder._pending_bytes
    out,             \* concatenation of the texts yielded so far (code points)
    dpc,             \* position of decode_stream_chunks: "idle","read","done"
    deferred,        \* history: some decode call left bytes pending
    \* ---- part 2: leaked tool parser ----
    text,            \* argument of extract_all_leaked_tools (a token sequence)
    cleaned_text,    \* local cleaned_text of extract_all_leaked_tools
    leaked_tools,    \* local leaked_tools: sequence of LeakedToolCall
    lpc,             \* "idle", "search" (top of the while loop), "returned",
                     \* "raised" (an exception left the function)
    origin,          \* history: for each token of cleaned_text its position
                     \* in text, 0 for tokens the sentinel branch wrote
    spans,           \* history: for each leaked tool, the positions of text
                     \* its raw_string was cut from
    iterations,      \* history: number of loop bodies executed
    existing_tool_calls, \* argument of extract_leaked_tool_calls
    all_tool_calls,  \* first component of its result
    \* ---- part 2b: parse_anthropic_content_array ----
    raw_content,     \* its argument
    block_idx,       \* number of blocks the for loop has gone through
    text_parts,      \* local text_parts
    tool_use_blocks, \* local tool_use_blocks
    content_result,  \* the returned (text, tool_use blocks)
    cpc,             \* "idle", "loop", "returned"
    \* ---- part 3: GeminiToolCallConverter.convert_response_data ----
    model_name,      \* its argument model_name (pieces of the name)
    response_in,     \* response_data["choices"] as the caller passed it
    response_data,   \* response_data["choices"], rewritten in place
    converted,       \* local converted
    gpc,             \* "idle", "called", "returned"
    \* ---- part 3b: building a response from the upstream answer ----
    upstream,        \* what session.post produced
    ir_response,     \* result of ArgoComplexOps.p_response_to_ir
    http_response,   \* result of _send_llmir_non_streaming_request
    rpc,             \* "idle", "start", "sent"
    \* ---- part 4: ArgoComplexOps, IR -> Argo wire format -> IR ----
    ir_in,           \* the IR message or IR request given
    argo_out,        \* what ir_message_to_p / ir_request_to_p returned
    conv_warnings,   \* the warnings returned with it
    ir_back,         \* what p_message_to_ir / p_request_to_ir made of it
    ipc,             \* "idle", "start", "wire", "back"
    \* ---- part 5: utils/image_processing.py ----
    dl_url,          \* download_image_to_base64: its argument url
    dl_response,     \* what session.get(url) produced
    dl_result,       \* what download_image_to_base64 returned
    payload,         \* process_chat_images: its argument data
    fetch,           \* what session.get produces for each URL
    payload1,        \* the result of a first process_chat_images
    fetched1,        \* the URLs it fetched
    payload2,        \* the result of process_chat_images on payload1
    fetched2,        \* the URLs that one fetched
    imgpc,           \* "idle", "download", "downloaded", "pass0", "pass1",
                     \* "pass2"
    \* ---- part 6: model registry: resolution and refresh ----
    reg_name,        \* resolve_model_name: its argument model_name
    reg_type,        \* its argument model_type: "chat" or "embed"
    registry,        \* the process-wide model registry
    resolved,        \* what ModelRegistry.resolve_model_name returned
    resolved_util,   \* what utils.resolve_model_name returned
    lock,            \* the refresher inside refresh_availability, 0: none
    refreshers,      \* for each refresh_models request its position, the
                     \* statistics it read and its response
    observed,        \* history: the registries that reads have seen
    qpc,             \* "idle", "start", "resolved", "serving"
    \* ---- part 7: chat endpoint and upstream answers ----
    chat_request,    \* the body of the POST and the handler serving it
    chat_upstream,   \* what session.post produced
    chat_response,   \* the response the client gets
    hpc,             \* "idle", "start", "upstream", "answered"
    \* ---- part 8: streaming, transports, request fields, session ----
    passthrough,     \* a streaming passthrough: the handler, what the
                     \* upstream delivers, what the client was sent
    sse,             \* pseudo_chunk_generator and send_off_sse: argument,
                     \* what was yielded or written
    field_conv,      \* a request's top-level fields through the converter
    validation,      \* validate_api_async: arguments, loop position, POSTs
    http_session,    \* OptimizedHTTPSession.session and the callers of
                     \* create_session
    second_pass,     \* extract_all_leaked_tools applied to its own result
    sequential       \* create_sequential_call_result_pairs: arguments, result

decVars == <<stream, pos, pending_bytes, out, dpc, deferred>>

leakVars == <<text, cleaned_text, leaked_tools, lpc, origin, spans, iterations,
              existing_tool_calls, all_tool_calls>>

contentVars == <<raw_content, block_idx, text_parts, tool_use_blocks,
                 content_result, cpc>>

gemVars == <<model_name, response_in, response_data, converted, gpc>>

respVars == <<upstream, ir_response, http_response, rpc>>

irVars == <<ir_in, argo_out, conv_warnings, ir_back, ipc>>

imgVars == <<dl_url, dl_response, dl_result, payload, fetch, payload1,
             fetched1, payload2, fetched2, imgpc>>

regVars == <<reg_name, reg_type, registry, resolved, resolved_util, lock,
             refreshers, observed, qpc>>

chatVars == <<chat_request, chat_upstream, chat_response, hpc>>

lateVars == <<passthrough, sse, field_conv, validation, http_session,
              second_pass, sequential>>

vars == <<decVars, leakVars, contentVars, gemVars, respVars, irVars, imgVars,
          regVars, chatVars, lateVars>>

\* the variables a part leaves alone
NotDec == <<leakVars, contentVars, gemVars, respVars, irVars, imgVars,
    regVars, chatVars, lateVars>>
NotLeak == <<decVars, contentVars, gemVars, respVars, irVars, imgVars,
    regVars, chatVars, lateVars>>
NotContent == <<decVars, leakVars, gemVars, respVars, irVars, imgVars,
    regVars, chatVars, lateVars>>
NotGem == <<decVars, leakVars, contentVars, respVars, irVars, imgVars,
    regVars, chatVars, lateVars>>
NotResp == <<decVars, leakVars, contentVars, gemVars, irVars, imgVars,
    regVars, chatVars, lateVars>>
NotIr == <<decVars, leakVars, contentVars, gemVars, respVars, imgVars,
    regVars, chatVars, lateVars>>
NotImg == <<decVars, leakVars, contentVars, gemVars, respVars, irVars,
    regVars, chatVars, lateVars>>
NotReg == <<decVars, leakVars, contentVars, gemVars, respVars, irVars,
    imgVars, chatVars, lateVars>>
NotChat == <<decVars, leakVars, contentVars, gemVars, respVars, irVars,
    imgVars, regVars, lateVars>>
NotLate == <<decVars, leakVars, contentVars, gemVars, respVars, irVars,
    imgVars, regVars, chatVars>>

\* the idle values of a part's variables while another part runs
DecIdle ==
    /\ stream = <<>>
    /\ pos = 0
    /\ pending_bytes = <<>>
    /\ out = <<>>
    /\ dpc = "idle"
    /\ deferred = FALSE

LeakIdle ==
    /\ text = <<>>
    /\ cleaned_text = <<>>
    /\ leaked_tools = <<>>
    /\ lpc = "idle"
    /\ origin = <<>>
    /\ spans = <<>>
    /\ iterations = 0
    /\ existing_tool_calls = <<>>
    /\ all_tool_calls = <<>>

ContentIdle ==
    /\ raw_content = [kind |-> "none"]
    /\ block_idx = 0
    /\ text_parts = <<>>
    /\ tool_use_blocks = <<>>
    /\ content_result = [text |-> <<>>, tools |-> <<>>]
    /\ cpc = "idle"

GemIdle ==
    /\ model_name = <<>>
    /\ response_in = <<>>
    /\ response_data = <<>>
    /\ converted = FALSE
    /\ gpc = "idle"

\* a value of the "response" field of an upstream answer: kind is "none"
\* (missing or null), "other" (neither str nor dict), "str" or "dict"
ResponseField(kind, contentNone, str, toolCallsNone, tool_calls) ==
    [kind |-> kind, contentNone |-> contentNone, text |-> str,
     toolCallsNone |-> toolCallsNone, tool_calls |-> tool_calls]

NoResponseField == ResponseField("none", TRUE, "", TRUE, <<>>)

NoUpstream == [outcome |-> "none", status |-> 0, convert_to_openai |-> FALSE,
               response |-> NoResponseField]

NoIr == [built |-> FALSE, content |-> <<>>, hasToolCalls |-> FALSE,
         tool_calls |-> <<>>, finish_reason |-> [reason |-> "stop"]]

NoHttp == [kind |-> "none", status |-> 0, type |-> "", contentNone |-> TRUE,
           content |-> "", toolCallsNone |-> TRUE, tool_calls |-> <<>>,
           finish_reason |-> ""]

RespIdle ==
    /\ upstream = NoUpstream
    /\ ir_response = NoIr
    /\ http_response = NoHttp
    /\ rpc = "idle"

\* no IR value or wire value at all
NoData == [level |-> "none", messages |-> <<>>, tools |-> "absent"]

IrIdle ==
    /\ ir_in = NoData
    /\ argo_out = NoData
    /\ conv_warnings = 0
    /\ ir_back = NoData
    /\ ipc = "idle"

\* a URL: its prefix up to "//" or "data:", the host, the path up to the
\* suffix, the suffix, the query; for a data URL the MIME type and the bytes
\* that were base64-encoded
Url(prefix, host, stem, ext, query, mime, body) ==
    [prefix |-> prefix, host |-> host, stem |-> stem, ext |-> ext,
     query |-> query, mime |-> mime, body |-> body]

NoUrl == Url("", "", "", "", "", "", <<>>)

\* None, as the result of download_image_to_base64
NoneResult == [isNone |-> TRUE, url |-> NoUrl]

NoGet == [outcome |-> "none", status |-> 0, content_type |-> "",
          body |-> <<>>]

NoPayload == [has_messages |-> FALSE, is_list |-> FALSE, messages |-> <<>>]

ImgIdle ==
    /\ dl_url = NoUrl
    /\ dl_response = NoGet
    /\ dl_result = NoneResult
    /\ payload = NoPayload
    /\ fetch = <<>>
    /\ payload1 = NoPayload
    /\ fetched1 = {}
    /\ payload2 = NoPayload
    /\ fetched2 = {}
    /\ imgpc = "idle"

\* the registry before construction: no entry at all
NoRegistry == [aliases |-> {}, internal_to_entry |-> {}]

\* no result of a resolution yet
NoResolved == [raised |-> FALSE, id |-> <<>>]

RegIdle ==
    /\ reg_name = <<>>
    /\ reg_type = ""
    /\ registry = NoRegistry
    /\ resolved = NoResolved
    /\ resolved_util = NoResolved
    /\ lock = 0
    /\ refreshers = <<>>
    /\ observed = {}
    /\ qpc = "idle"

NoChatRequest == [handler |-> "", body |-> ""]

ChatIdle ==
    /\ chat_request = NoChatRequest
    /\ chat_upstream = NoUpstream
    /\ chat_response = NoHttp
    /\ hpc = "idle"

Unused == [pc |-> "idle"]

LateIdle ==
    /\ passthrough = Unused
    /\ sse = Unused
    /\ field_conv = Unused
    /\ validation = Unused
    /\ http_session = Unused
    /\ second_pass = Unused
    /\ sequential = Unused

----------------------------------------------------------------------------
(***************************************************************************)
(* Part 1.  UTF-8 decoding as bytes.decode("utf-8") performs it.           *)
(***************************************************************************)

\* bounds of the decoder model
MaxBytes == 5

\* bytes the stream is drawn from: ASCII 'A', a continuation byte, the lead
\* bytes of a 2-, 3- and 4-byte sequence, and a byte that is never valid
DecBytes == {65, 169, 195, 228, 240, 255}

ReplacementChar == 65533

\* length announced by a lead byte, 0 for a byte that cannot start a sequence
SeqLen(b) ==
    IF b <= 127 THEN 1
    ELSE IF b >= 194 /\ b <= 223 THEN 2
    ELSE IF b >= 224 /\ b <= 239 THEN 3
    ELSE IF b >= 240 /\ b <= 244 THEN 4
    ELSE 0

\* is b acceptable as the k-th continuation byte after lead byte b0
ValidCont(b0, k, b) ==
    IF k = 1 /\ b0 = 224 THEN b >= 160 /\ b <= 191
    ELSE IF k = 1 /\ b0 = 237 THEN b >= 128 /\ b <= 159
    ELSE IF k = 1 /\ b0 = 240 THEN b >= 144 /\ b <= 191
    ELSE IF k = 1 /\ b0 = 244 THEN b >= 128 /\ b <= 143
    ELSE b >= 128 /\ b <= 191

\* code point of the well-formed sequence of n bytes starting at bs[i]
CodePoint(bs, i, n) ==
    IF n = 1 THEN bs[i]
    ELSE IF n = 2 THEN (bs[i] % 32) * 64 + (bs[i+1] % 64)
    ELSE IF n = 3 THEN (bs[i] % 16) * 4096 + (bs[i+1] % 64) * 64 + (bs[i+2] % 64)
    ELSE (bs[i] % 8) * 262144 + (bs[i+1] % 64) * 4096
         + (bs[i+2] % 64) * 64 + (bs[i+3] % 64)

\* number of bytes (lead included) of the longest well-formed prefix of the
\* sequence starting at bs[i]; k bytes are known to be good already
RECURSIVE GoodFrom(_, _, _)
GoodFrom(bs, i, k) ==
    IF k < SeqLen(bs[i]) /\ i + k <= Len(bs) /\ ValidCont(bs[i], k, bs[i+k])
    THEN GoodFrom(bs, i, k + 1)
    ELSE k

\* bytes.decode("utf-8"): [ok |-> FALSE] stands for UnicodeDecodeError
RECURSIVE StrictFrom(_, _, _)
StrictFrom(bs, i, acc) ==
    IF i > Len(bs) THEN [ok |-> TRUE, text |-> acc]
    ELSE LET n == SeqLen(bs[i]) IN
         IF n = 0 \/ GoodFrom(bs, i, 1) < n
         THEN [ok |-> FALSE, text |-> <<>>]
         ELSE StrictFrom(bs, i + n, Append(acc, CodePoint(bs, i, n)))

StrictDecode(bs) == StrictFrom(bs, 1, <<>>)

\* bytes.decode("utf-8", errors="replace"): every maximal ill-formed
\* subpart becomes one U+FFFD
RECURSIVE ReplaceFrom(_, _, _)
ReplaceFrom(bs, i, acc) ==
    IF i > Len(bs) THEN acc
    ELSE LET n == SeqLen(bs[i])
             g == GoodFrom(bs, i, 1)
         IN IF n = 0 THEN ReplaceFrom(bs, i + 1, Append(acc, ReplacementChar))
            ELSE IF g < n THEN ReplaceFrom(bs, i + g, Append(acc, ReplacementChar))
            ELSE ReplaceFrom(bs, i + n, Append(acc, CodePoint(bs, i, n)))

ReplaceDecode(bs) == ReplaceFrom(bs, 1, <<>>)

Min(a, b) == IF a < b THEN a ELSE b

\* the for loop of StreamDecoder.decode: strip i = 1..min(3, len) trailing
\* bytes until the rest decodes; otherwise keep the whole buffer pending
RECURSIVE StripTail(_, _)
StripTail(buf, i) ==
    IF i >= Min(4, Len(buf) + 1)
    THEN [text |-> <<>>, complete |-> FALSE, pending |-> buf]
    ELSE LET head == SubSeq(buf, 1, Len(buf) - i)
             d == StrictDecode(head)
         IN IF d.ok
            THEN [text |-> d.text, complete |-> FALSE,
                  pending |-> SubSeq(buf, Len(buf) - i + 1, Len(buf))]
            ELSE StripTail(buf, i + 1)

\* a decoder that forgets the bytes it could not decode
decode_dropping(pending, chunk_bytes) ==
    LET buf == pending \o chunk_bytes
        d == StrictDecode(buf)
    IN IF d.ok THEN [text |-> d.text, complete |-> TRUE, pending |-> <<>>]
       ELSE [StripTail(buf, 1) EXCEPT !.pending = <<>>]

\* StreamDecoder.decode(chunk_bytes) with self._pending_bytes = pending
decode(pending, chunk_bytes) ==
    LET buf == pending \o chunk_bytes
        d == StrictDecode(buf)
    IN IF d.ok THEN [text |-> d.text, complete |-> TRUE, pending |-> <<>>]
       ELSE StripTail(buf, 1)

\* StreamDecoder.flush()
flush(pending) ==
    IF pending # <<>> THEN ReplaceDecode(pending) ELSE <<>>

ByteStrings == UNION {[1..n -> DecBytes] : n \in 0..MaxBytes}

InitDecoder ==
    /\ RegIdle
    /\ ChatIdle
    /\ LateIdle
    /\ LeakIdle
    /\ ContentIdle
    /\ GemIdle
    /\ RespIdle
    /\ IrIdle
    /\ ImgIdle
    /\ stream \in ByteStrings
    /\ pos = 0
    /\ pending_bytes = <<>>
    /\ out = <<>>
    /\ dpc = "read"
    /\ deferred = FALSE

\* one iteration of `async for chunk_bytes in chunk_iterator` with a
\* non-empty chunk of k bytes: decode it and yield the text
DecodeChunk ==
    /\ dpc = "read"
    /\ \E k \in 1..(Len(stream) - pos) :
         LET r == decode(pending_bytes, SubSeq(stream, pos + 1, pos + k)) IN
         /\ pos' = pos + k
         /\ pending_bytes' = r.pending
         /\ out' = out \o r.text
         /\ deferred' = (deferred \/ r.pending # <<>>)
    /\ UNCHANGED <<stream, dpc>>
    /\ UNCHANGED NotDec

\* the iterator is exhausted: flush and yield what remains
FlushStream ==
    /\ dpc = "read"
    /\ pos = Len(stream)
    /\ out' = out \o flush(pending_bytes)
    /\ pending_bytes' = <<>>
    /\ dpc' = "done"
    /\ UNCHANGED <<stream, pos, deferred>>
    /\ UNCHANGED NotDec

NextDecoder == DecodeChunk \/ FlushStream

SpecDecoder == InitDecoder /\ [][NextDecoder]_vars

----------------------------------------------------------------------------
\* C1: for a valid UTF-8 stream, whatever the chunk boundaries, the texts
\* yielded by decode followed by the text of flush concatenate to the text
\* of decoding the whole stream at once.
ChunkedDecodeEqualsWhole ==
    (dpc = "done" /\ StrictDecode(stream).ok) => out = StrictDecode(stream).text

\* a valid stream with a multi-byte character was cut inside a character
\* and has been decoded to the end
SplitCharDecoded ==
    /\ dpc = "done"
    /\ deferred
    /\ StrictDecode(stream).ok
    /\ Len(stream) >= 4

\* C2: after every decode call the decoder retains at most 3 pending bytes.
PendingAtMostThree == Len(pending_bytes) <= 3

----------------------------------------------------------------------------
(***************************************************************************)
(* Part 2.  tool_calls/leaked_tool_parser.py                               *)
(*                                                                         *)
(* A text is a sequence of tokens; every token is the piece of text that   *)
(* its definition shows.  The pieces are cut so that the anchor pattern    *)
(* LEAKED_TOOL_PATTERN  \{'id':\s*'toolu_  matches exactly where tH is     *)
(* followed by tT or tT0, every "}" of the text ends a token (tC or tI),   *)
(* and every backslash of the text sits in tM or tX.                       *)
(***************************************************************************)

tH  == "{'id"                        \* first half of the anchor
tT  == "':'toolu_1','name':'n'"      \* second half, id toolu_1, and a name
tT0 == "':'toolu_0'"                 \* second half, id toolu_0, no name
tN  == ",'name':'n'"                 \* item: name
tI  == ",'input':{'q':1}"            \* item: input (ends with a "}")
tU  == ",[]:1"                       \* item with an unhashable key
tB  == ",'id':'bad'"                 \* item that overrides the id
tM  == ",'name':'\\\\',0:'"            \* name is one backslash; opens a string
tQ  == "',2:3"                       \* a quote, then an item
tC  == "}"
tX  == "\\n"                         \* plain text: a backslash and an n
\* pieces that only the code writes
tXr == "\\\\n"                       \* tX after repair 1
tMr == ",'name':'\\',0:'"             \* tM after repair 2
UNPARSEABLE_TOOL == "[UNPARSEABLE_TOOL]"
tR  == "1','name':'n'"               \* what the anchor match leaves of tT
tR0 == "0'"                          \* what the anchor match leaves of tT0

\* bounds of the parser model: texts over the whole alphabet, and longer
\* texts over the pieces of well-formed tool calls
MaxLen == 4
MaxLenCore == 6

Alphabet == {tH, tT, tT0, tN, tI, tU, tB, tM, tQ, tC, tX}
CoreAlphabet == {tH, tT, tT0, tN, tI, tC}

Texts == UNION {[1..n -> Alphabet] : n \in 0..MaxLen}
         \cup UNION {[1..n -> CoreAlphabet] : n \in 0..MaxLenCore}

\* ---- ast.literal_eval on a candidate ----
\* The scan keeps: mode  "Astr" after an item that ends with a string,
\* "A" after any other item, "S" inside an open string, "D" after the
\* closing brace, "E" after a syntax error; the dict read so far; and
\* which entry a string that follows is concatenated to.

StrPiece(t) ==
    IF t = tX THEN "\n" ELSE IF t = tXr THEN "\\n"
    ELSE IF t = tQ THEN ",2:3" ELSE t

Extend(st, t) ==
    IF st.last = "id" THEN [st EXCEPT !.id = Append(@, StrPiece(t))]
    ELSE IF st.last = "name" THEN [st EXCEPT !.name = Append(@, StrPiece(t))]
    ELSE st

Step(st, t) ==
    IF st.mode \in {"D", "E"} THEN [st EXCEPT !.mode = "E"]
    ELSE IF st.mode \in {"A", "Astr"} THEN
        CASE t = tN  -> [st EXCEPT !.hasName = TRUE, !.name = <<"n">>,
                                   !.last = "name", !.mode = "Astr"]
          [] t = tB  -> [st EXCEPT !.id = <<"bad">>, !.last = "id",
                                   !.mode = "Astr"]
          [] t = tI  -> [st EXCEPT !.input = "q", !.mode = "A"]
          [] t = tU  -> [st EXCEPT !.unhashable = TRUE, !.mode = "A"]
          [] t = tM  -> [st EXCEPT !.hasName = TRUE, !.name = <<"\\">>,
                                   !.last = "other", !.mode = "S"]
          [] t = tMr -> [st EXCEPT !.hasName = TRUE, !.name = <<"',0:">>,
                                   !.last = "name", !.mode = "Astr"]
          [] t = tC  -> [st EXCEPT !.mode = "D"]
          [] t = tQ /\ st.mode = "Astr" -> [Extend(st, t) EXCEPT !.mode = "S"]
          [] OTHER   -> [st EXCEPT !.mode = "E"]
    ELSE \* inside a string: pieces without a quote are its content
        CASE t \in {tC, tX, tXr, tU, UNPARSEABLE_TOOL} -> Extend(st, t)
          [] t = tQ  -> [st EXCEPT !.mode = "A"]
          [] OTHER   -> [st EXCEPT !.mode = "E"]

RECURSIVE Scan(_, _, _)
Scan(c, i, st) ==
    IF i > Len(c) THEN st ELSE Scan(c, i + 1, Step(st, c[i]))

SyntaxErr == [kind |-> "syntax", id |-> <<>>, hasName |-> FALSE,
              name |-> <<>>, input |-> "none"]

\* ast.literal_eval(candidate_str): kind "dict" with the entries read,
\* "syntax" for ValueError / SyntaxError, "type" for the TypeError that
\* building a dict with an unhashable key raises
literal_eval(c) ==
    IF Len(c) < 3 \/ c[1] # tH \/ c[2] \notin {tT, tT0} THEN SyntaxErr
    ELSE LET st0 == [mode |-> "Astr",
                     id |-> IF c[2] = tT THEN <<"toolu_1">> ELSE <<"toolu_0">>,
                     hasName |-> (c[2] = tT),
                     name |-> IF c[2] = tT THEN <<"n">> ELSE <<>>,
                     input |-> "none", unhashable |-> FALSE,
                     last |-> IF c[2] = tT THEN "name" ELSE "id"]
             st == Scan(c, 3, st0)
         IN IF st.mode # "D" THEN SyntaxErr
            ELSE IF st.unhashable THEN [SyntaxErr EXCEPT !.kind = "type"]
            ELSE [kind |-> "dict", id |-> st.id, hasName |-> st.hasName,
                  name |-> st.name, input |-> st.input]

\* s1: re.sub(r"(?<!\\)\\n", r"\\\\n", s)
Repair1(c) == [i \in 1..Len(c) |-> IF c[i] = tX THEN tXr ELSE c[i]]

\* s2: s.replace(r"\\'", r"\'")
Repair2(c) == [i \in 1..Len(c) |-> IF c[i] = tM THEN tMr ELSE c[i]]

\* s4: re.sub(r"\}\},[ \n\r]*?('name'|...)", r"}, \1", s): the second of two
\* closing braces in front of a name item is dropped
RECURSIVE Repair4From(_, _, _)
Repair4From(c, k, acc) ==
    IF k > Len(c) THEN acc
    ELSE IF /\ c[k] = tC /\ k > 1 /\ k < Len(c)
            /\ c[k-1] \in {tC, tI} /\ c[k+1] \in {tN, tM}
         THEN Repair4From(c, k + 1, acc)
         ELSE Repair4From(c, k + 1, Append(acc, c[k]))

Repair4(c) == Repair4From(c, 1, <<>>)

ParseNone == [SyntaxErr EXCEPT !.kind = "none"]
ParseRaise == [SyntaxErr EXCEPT !.kind = "raise"]

\* the candidate itself, then (s1, s2, s3, s4, s5); only ValueError and
\* SyntaxError are caught
RECURSIVE TryAttempts(_, _)
TryAttempts(attempts, i) ==
    IF i > Len(attempts) THEN ParseNone
    ELSE LET r == literal_eval(attempts[i]) IN
         IF r.kind = "type" THEN ParseRaise
         ELSE IF r.kind = "dict" /\ r.hasName THEN r
         ELSE TryAttempts(attempts, i + 1)

\* LeakedToolParser._try_parse_candidate; the key "id" is in every dict a
\* candidate evaluates to because the candidate starts with the anchor
try_parse_candidate(candidate_str) ==
    LET s1 == Repair1(candidate_str)
        s2 == Repair2(candidate_str)
        s3 == Repair2(s1)
        s4 == Repair4(candidate_str)
        s5 == Repair4(s1)
    IN TryAttempts(<<candidate_str, s1, s2, s3, s4, s5>>, 1)

\* LEAKED_TOOL_PATTERN matches at token k
IsAnchorAt(t, k) == k < Len(t) /\ t[k] = tH /\ t[k+1] \in {tT, tT0}

\* a mutation of HasAnchor: the pattern is matched at the start only
HasAnchorAtStart(t) == IsAnchorAt(t, 1)

HasAnchor(t) == \E k \in 1..Len(t) : IsAnchorAt(t, k)

\* LEAKED_TOOL_PATTERN.search(t): the leftmost match, 0 for no match
Search(t) ==
    IF HasAnchor(t)
    THEN CHOOSE k \in 1..Len(t) :
            IsAnchorAt(t, k) /\ \A j \in 1..(k - 1) : ~IsAnchorAt(t, j)
    ELSE 0

\* `not isinstance(tool_id, str) or not tool_id.startswith("toolu_")`
InvalidToolId(id) == id = <<>> \/ id[1] \notin {"toolu_1", "toolu_0"}

NoTool == [kind |-> "none", id |-> <<>>, name |-> <<>>, input |-> "none",
           type |-> "tool_use", raw_string |-> <<>>,
           start_index |-> 0, end_index |-> 0]

\* the loop `for end_rel in candidate_ends`: token e of t is the next
\* position to look at; candidate ends are the tokens that end with "}"
RECURSIVE TryEnds(_, _, _)
TryEnds(t, k, e) ==
    IF e > Len(t) THEN NoTool
    ELSE IF t[e] \notin {tC, tI} THEN TryEnds(t, k, e + 1)
    ELSE LET candidate_str == SubSeq(t, k, e)
             leaked_dict == try_parse_candidate(candidate_str)
         IN IF leaked_dict.kind = "raise" THEN [NoTool EXCEPT !.kind = "raise"]
            ELSE IF leaked_dict.kind = "none" THEN TryEnds(t, k, e + 1)
            ELSE IF InvalidToolId(leaked_dict.id) THEN TryEnds(t, k, e + 1)
            ELSE [kind |-> "tool", id |-> leaked_dict.id,
                  name |-> leaked_dict.name, input |-> leaked_dict.input,
                  type |-> "tool_use", raw_string |-> candidate_str,
                  start_index |-> k - 1, end_index |-> e]

\* LeakedToolParser.extract_single_leaked_tool(t, start_idx) for the match
\* at token k (start_idx = k - 1 counts from 0, end_index is exclusive)
extract_single_leaked_tool(t, k) == TryEnds(t, k, k)

\* the pieces the sentinel branch writes in place of the anchor at token k:
\* the sentinel, then what the match left of the second token
SentinelFor(t, k) == <<UNPARSEABLE_TOOL, IF t[k+1] = tT THEN tR ELSE tR0>>

\* a sentinel branch that leaves the matched text where it is
replace_nothing(t, k) == t

\* cleaned_text[:start_idx] + "[UNPARSEABLE_TOOL]" + cleaned_text[match.end():]
replace_unparseable(t, k) ==
    SubSeq(t, 1, k - 1) \o SentinelFor(t, k) \o SubSeq(t, k + 2, Len(t))

\* cleaned_text[:start_index] + cleaned_text[end_index:]
remove_span(t, start_index, end_index) ==
    SubSeq(t, 1, start_index) \o SubSeq(t, end_index + 1, Len(t))

\* LeakedToolParser.to_anthropic_format
to_anthropic_format(leaked_tool) ==
    [id |-> leaked_tool.id, name |-> leaked_tool.name,
     input |-> leaked_tool.input, type |-> leaked_tool.type]

\* already-structured tool calls handed to extract_leaked_tool_calls
ExistingTool(n) == [id |-> <<n>>, name |-> <<"given">>, input |-> "none",
                    type |-> "tool_use"]
ExistingLists == {<<>>, <<ExistingTool("e1")>>,
                  <<ExistingTool("e1"), ExistingTool("e2")>>,
                  <<ExistingTool("e2"), ExistingTool("e1")>>}

\* executions of the loop body after which the model stops following a run
IterCap == 12

InitLeakText ==
    /\ RegIdle
    /\ ChatIdle
    /\ LateIdle
    /\ DecIdle
    /\ ContentIdle
    /\ GemIdle
    /\ RespIdle
    /\ IrIdle
    /\ ImgIdle
    /\ text \in Texts
    /\ cleaned_text = text
    /\ leaked_tools = <<>>
    /\ lpc = "search"
    /\ origin = [i \in 1..Len(text) |-> i]
    /\ spans = <<>>
    /\ iterations = 0
    /\ existing_tool_calls = <<>>
    /\ all_tool_calls = <<>>

\* loop body, `if leaked_tool:` branch
ExtractTool ==
    /\ lpc = "search"
    /\ iterations < IterCap
    /\ HasAnchor(cleaned_text)
    /\ LET k == Search(cleaned_text)
           leaked_tool == extract_single_leaked_tool(cleaned_text, k)
       IN /\ leaked_tool.kind = "tool"
          /\ leaked_tools' = Append(leaked_tools, leaked_tool)
          /\ cleaned_text' = remove_span(cleaned_text, leaked_tool.start_index,
                                         leaked_tool.end_index)
          /\ origin' = remove_span(origin, leaked_tool.start_index,
                                   leaked_tool.end_index)
          /\ spans' = Append(spans,
                 {origin[j] : j \in k..leaked_tool.end_index} \ {0})
    /\ iterations' = iterations + 1
    /\ UNCHANGED <<text, lpc, existing_tool_calls, all_tool_calls>>
    /\ UNCHANGED NotLeak

\* loop body, `else:` branch
ReplaceUnparseable ==
    /\ lpc = "search"
    /\ iterations < IterCap
    /\ HasAnchor(cleaned_text)
    /\ LET k == Search(cleaned_text)
           leaked_tool == extract_single_leaked_tool(cleaned_text, k)
       IN /\ leaked_tool.kind = "none"
          /\ cleaned_text' = replace_unparseable(cleaned_text, k)
          /\ origin' = IF cleaned_text' = cleaned_text THEN origin
                       ELSE SubSeq(origin, 1, k - 1) \o <<0, 0>>
                            \o SubSeq(origin, k + 2, Len(origin))
    /\ iterations' = iterations + 1
    /\ UNCHANGED <<text, leaked_tools, lpc, spans, existing_tool_calls,
                   all_tool_calls>>
    /\ UNCHANGED NotLeak

\* loop body: ast.literal_eval raised an exception that
\* _try_parse_candidate does not catch; it leaves extract_all_leaked_tools
\* and extract_leaked_tool_calls
RaiseTypeError ==
    /\ lpc = "search"
    /\ iterations < IterCap
    /\ HasAnchor(cleaned_text)
    /\ extract_single_leaked_tool(cleaned_text, Search(cleaned_text)).kind
          = "raise"
    /\ lpc' = "raised"
    /\ iterations' = iterations + 1
    /\ UNCHANGED <<text, cleaned_text, leaked_tools, origin, spans,
                   existing_tool_calls, all_tool_calls>>
    /\ UNCHANGED NotLeak

\* `if not match: break`, the return of extract_all_leaked_tools and the
\* rest of extract_leaked_tool_calls, whose second argument is chosen here
ReturnTools ==
    /\ lpc = "search"
    /\ ~HasAnchor(cleaned_text)
    /\ \E existing \in ExistingLists :
         /\ existing_tool_calls' = existing
         /\ all_tool_calls' = existing \o
               [i \in 1..Len(leaked_tools) |-> to_anthropic_format(leaked_tools[i])]
    /\ lpc' = "returned"
    /\ UNCHANGED <<text, cleaned_text, leaked_tools, origin, spans, iterations>>
    /\ UNCHANGED NotLeak

\* ---- parse_anthropic_content_array ----
\* Texts are sequences of pieces here too.  A block is a dict with a type
\* (and a text or an id), a bare string, or a value of another Python type.

MaxBlocks == 3

TextBlock(p) == [py |-> "dict", type |-> "text", hasText |-> TRUE,
                 text |-> <<p>>, id |-> ""]
TextBlockNoText == [py |-> "dict", type |-> "text", hasText |-> FALSE,
                    text |-> <<>>, id |-> ""]
ToolUseBlock(n) == [py |-> "dict", type |-> "tool_use", hasText |-> FALSE,
                    text |-> <<>>, id |-> n]
ImageBlock == [py |-> "dict", type |-> "image", hasText |-> FALSE,
               text |-> <<>>, id |-> ""]
StrBlock(p) == [py |-> "str", type |-> "", hasText |-> TRUE,
                text |-> <<p>>, id |-> ""]
IntBlock == [py |-> "int", type |-> "", hasText |-> FALSE,
             text |-> <<>>, id |-> ""]

Blocks == {TextBlock("a"), TextBlock("b"), TextBlockNoText,
           ToolUseBlock("u1"), ToolUseBlock("u2"), ImageBlock,
           StrBlock("s"), IntBlock}

RawContents ==
    {[kind |-> "list", blocks |-> bs] :
        bs \in UNION {[1..n -> Blocks] : n \in 0..MaxBlocks}}
    \cup {[kind |-> "str", text |-> t] : t \in {<<>>, <<"a">>}}
    \cup {[kind |-> "none"]}
    \cup {[kind |-> "int", val |-> v] : v \in {0, 7}}

\* "".join(text_parts)
RECURSIVE Join(_, _)
Join(parts, i) ==
    IF i > Len(parts) THEN <<>> ELSE parts[i] \o Join(parts, i + 1)

\* str(raw_content) if raw_content else ""  for a value that is neither a
\* string nor a list
StrOrEmpty(rc) ==
    IF rc.kind = "int" /\ rc.val # 0 THEN <<"7">> ELSE <<>>

InitContent ==
    /\ RegIdle
    /\ ChatIdle
    /\ LateIdle
    /\ DecIdle
    /\ LeakIdle
    /\ GemIdle
    /\ RespIdle
    /\ IrIdle
    /\ ImgIdle
    /\ raw_content \in RawContents
    /\ block_idx = 0
    /\ text_parts = <<>>
    /\ tool_use_blocks = <<>>
    /\ content_result = [text |-> <<>>, tools |-> <<>>]
    /\ cpc = "loop"

\* the two early returns: a string, or a value that is not a list
ParseScalar ==
    /\ cpc = "loop"
    /\ raw_content.kind # "list"
    /\ content_result' =
          IF raw_content.kind = "str"
          THEN [text |-> raw_content.text, tools |-> <<>>]
          ELSE [text |-> StrOrEmpty(raw_content), tools |-> <<>>]
    /\ cpc' = "returned"
    /\ UNCHANGED <<raw_content, block_idx, text_parts, tool_use_blocks>>
    /\ UNCHANGED NotContent

\* one iteration of `for block in raw_content`
ParseBlock ==
    /\ cpc = "loop"
    /\ raw_content.kind = "list"
    /\ block_idx < Len(raw_content.blocks)
    /\ LET block == raw_content.blocks[block_idx + 1] IN
       /\ text_parts' =
             IF block.py = "dict" /\ block.type = "text"
             THEN Append(text_parts, block.text)
             ELSE IF block.py = "str" THEN Append(text_parts, block.text)
             ELSE text_parts
       /\ tool_use_blocks' =
             IF block.py = "dict" /\ block.type = "tool_use"
             THEN Append(tool_use_blocks, block)
             ELSE tool_use_blocks
    /\ block_idx' = block_idx + 1
    /\ UNCHANGED <<raw_content, content_result, cpc>>
    /\ UNCHANGED NotContent

\* return "".join(text_parts), tool_use_blocks
ParseReturn ==
    /\ cpc = "loop"
    /\ raw_content.kind = "list"
    /\ block_idx = Len(raw_content.blocks)
    /\ content_result' = [text |-> Join(text_parts, 1), tools |-> tool_use_blocks]
    /\ cpc' = "returned"
    /\ UNCHANGED <<raw_content, block_idx, text_parts, tool_use_blocks>>
    /\ UNCHANGED NotContent

InitLeaked == InitLeakText \/ InitContent

NextLeaked ==
    \/ ExtractTool \/ ReplaceUnparseable \/ RaiseTypeError \/ ReturnTools
    \/ ParseScalar \/ ParseBlock \/ ParseReturn

SpecLeaked == InitLeaked /\ [][NextLeaked]_vars

----------------------------------------------------------------------------
\* number of occurrences of tH in a text
RECURSIVE CountH(_, _)
CountH(t, i) ==
    IF i > Len(t) THEN 0 ELSE (IF t[i] = tH THEN 1 ELSE 0) + CountH(t, i + 1)

\* C3: extract_all_leaked_tools terminates on every text: the loop body is
\* executed at most once per anchor start "{'id" of the input, whether the
\* anchor is parsed and removed or replaced by the sentinel.
LoopIterationsBounded == iterations <= CountH(text, 1)

\* the loop has ended after it went through both branches: it extracted a
\* tool and it replaced an anchor by the sentinel
LoopEndedAfterBothBranches ==
    /\ lpc = "returned"
    /\ iterations >= 2
    /\ Len(leaked_tools) >= 1
    /\ \E i \in 1..Len(cleaned_text) : cleaned_text[i] = UNPARSEABLE_TOOL

SpanMin(S) == CHOOSE m \in S : \A x \in S : m <= x
SpanMax(S) == CHOOSE m \in S : \A x \in S : m >= x

\* C4: the ranges of the input text that the tool calls of one invocation
\* were cut from are pairwise disjoint: none nests inside or straddles
\* another.
SpansNeverOverlap ==
    \A i \in 1..Len(spans) : \A j \in 1..Len(spans) :
        (i < j /\ spans[i] # {} /\ spans[j] # {}) =>
            \/ SpanMax(spans[i]) < SpanMin(spans[j])
            \/ SpanMax(spans[j]) < SpanMin(spans[i])

\* C5: extract_all_leaked_tools and extract_leaked_tool_calls return
\* normally for every text: no exception of the literal parse reaches the
\* caller.
ExtractionNeverRaises == lpc # "raised"

\* C6: when the text is P + D + S with D a well-formed tool-call dict that
\* starts with the anchor and has id and name, and P and S hold no anchor,
\* exactly one tool call with D's id, name and input is returned and the
\* cleaned text is P + S.
SingleToolCut ==
    lpc = "returned" =>
      \A i \in 1..Len(text) : \A j \in i..Len(text) :
        LET P == SubSeq(text, 1, i - 1)
            D == SubSeq(text, i, j)
            S == SubSeq(text, j + 1, Len(text))
            d == literal_eval(D)
        IN (/\ IsAnchorAt(text, i)
            /\ d.kind = "dict" /\ d.hasName /\ ~InvalidToolId(d.id)
            /\ ~HasAnchor(P) /\ ~HasAnchor(S))
           => /\ Len(leaked_tools) = 1
              /\ leaked_tools[1].id = d.id
              /\ leaked_tools[1].name = d.name
              /\ leaked_tools[1].input = d.input
              /\ cleaned_text = P \o S

\* C7: when no candidate end after the anchor found yields an accepted
\* dict, the loop body writes the sentinel in place of the anchor, records
\* no tool call and goes on searching.
UnparseableIsReplaced ==
    [][(/\ lpc = "search" /\ HasAnchor(cleaned_text)
        /\ extract_single_leaked_tool(cleaned_text, Search(cleaned_text)).kind
             # "tool")
       => (/\ lpc' = "search"
           /\ leaked_tools' = leaked_tools
           /\ cleaned_text' =
                 replace_unparseable(cleaned_text, Search(cleaned_text)))]_vars

\* the tool_use blocks of a content array, in the order of the array
RECURSIVE ToolUsesOf(_, _)
ToolUsesOf(blocks, i) ==
    IF i > Len(blocks) THEN <<>>
    ELSE (IF blocks[i].py = "dict" /\ blocks[i].type = "tool_use"
          THEN <<blocks[i]>> ELSE <<>>) \o ToolUsesOf(blocks, i + 1)

\* the texts of the text blocks and bare strings, in the order of the array
RECURSIVE TextsOf(_, _)
TextsOf(blocks, i) ==
    IF i > Len(blocks) THEN <<>>
    ELSE (IF (blocks[i].py = "dict" /\ blocks[i].type = "text")
             \/ blocks[i].py = "str"
          THEN blocks[i].text ELSE <<>>) \o TextsOf(blocks, i + 1)

\* C8: tool calls keep their upstream order: parse_anthropic_content_array
\* returns the tool_use blocks and the text in the order of the array, and
\* extract_leaked_tool_calls returns the given tool calls first, unchanged,
\* followed by the leaked calls in the left-to-right order in which they
\* start in the text.
ToolCallsKeepOrder ==
    /\ (cpc = "returned" /\ raw_content.kind = "list") =>
          /\ content_result.tools = ToolUsesOf(raw_content.blocks, 1)
          /\ content_result.text = TextsOf(raw_content.blocks, 1)
    /\ lpc = "returned" =>
          /\ Len(all_tool_calls) = Len(existing_tool_calls) + Len(leaked_tools)
          /\ SubSeq(all_tool_calls, 1, Len(existing_tool_calls))
                = existing_tool_calls
          /\ \A i \in 1..Len(leaked_tools) :
                all_tool_calls[Len(existing_tool_calls) + i]
                  = to_anthropic_format(leaked_tools[i])
          /\ \A i \in 1..Len(spans) : \A j \in 1..Len(spans) :
                (i < j /\ spans[i] # {} /\ spans[j] # {}) =>
                    SpanMin(spans[i]) < SpanMin(spans[j])

----------------------------------------------------------------------------
(***************************************************************************)
(* Part 3.  tool_calls/google_helpers.py: GeminiToolCallConverter.         *)
(*                                                                         *)
(* A message content is a sequence of tokens, each token the piece of text *)
(* it stands for.  tool_call_pattern is                                    *)
(*     <tool_call>\s*(\{.*?\})\s*</tool_call>      (DOTALL)                *)
(* so a match opens at gOpen, skips blanks, must find a "{" next (the      *)
(* first character of a JSON token), and its lazy group ends at the first  *)
(* "}" that is followed by blanks and gClose (the last character of a JSON *)
(* token): the group may run over other tags and text.                     *)
(***************************************************************************)
gOpen == "<tool_call>"
gClose == "</tool_call>"
gSp == " "
jFull == "{\"name\":\"f\",\"arguments\":{\"a\":1}}"
jName == "{\"name\":\"g\"}"
jNoName == "{\"arguments\":{}}"
jBad == "{bad}"
gTxt == "hi"

MaxContent == 4
MaxBlockContent == 6
MaxChoices == 2

JsonTokens == {jFull, jName, jNoName, jBad}
GemAlphabet == {gOpen, gClose, gSp, gTxt} \cup JsonTokens
BlockAlphabet == {gOpen, gClose, jName, jNoName}

\* two blocks side by side, each with any of the JSON texts
TwoBlocks ==
    {<<gOpen, a, gClose, gOpen, b, gClose>> : a, b \in JsonTokens}

Contents ==
    UNION {[1..n -> GemAlphabet] : n \in 0..MaxContent}
      \cup UNION {[1..n -> BlockAlphabet] : n \in 0..MaxBlockContent}
      \cup TwoBlocks

\* position of the first token at or after p that is not a blank
RECURSIVE SkipWs(_, _)
SkipWs(c, p) ==
    IF p <= Len(c) /\ c[p] = gSp THEN SkipWs(c, p + 1) ELSE p

\* end of the lazy group \{.*?\} searched from q on: the first JSON token
\* that is followed by blanks and the closing tag; 0 when there is none
RECURSIVE GroupEnd(_, _)
GroupEnd(c, q) ==
    IF q > Len(c) THEN 0
    ELSE IF /\ c[q] \in JsonTokens
            /\ SkipWs(c, q + 1) <= Len(c)
            /\ c[SkipWs(c, q + 1)] = gClose
         THEN q
         ELSE GroupEnd(c, q + 1)

NoMatch == [found |-> FALSE, start |-> 0, g0 |-> 0, g1 |-> 0, end |-> 0]

\* tool_call_pattern matched at position p of c
MatchAt(c, p) ==
    LET q0 == SkipWs(c, p + 1) IN
    IF /\ c[p] = gOpen
       /\ q0 <= Len(c)
       /\ c[q0] \in JsonTokens
       /\ GroupEnd(c, q0) # 0
    THEN [found |-> TRUE, start |-> p, g0 |-> q0, g1 |-> GroupEnd(c, q0),
          end |-> SkipWs(c, GroupEnd(c, q0) + 1)]
    ELSE NoMatch

\* tool_call_pattern.findall: the non-overlapping matches, left to right
RECURSIVE FindAll(_, _)
FindAll(c, p) ==
    IF p > Len(c) THEN <<>>
    ELSE IF MatchAt(c, p).found
         THEN <<MatchAt(c, p)>> \o FindAll(c, MatchAt(c, p).end + 1)
         ELSE FindAll(c, p + 1)

\* json.loads succeeds on a group exactly when it is one well-formed object
JsonLoads(group) == Len(group) = 1 /\ group[1] # jBad

\* tool_data.get("name", "")
GetName(tok) ==
    CASE tok = jFull -> "f"
      [] tok = jName -> "g"
      [] OTHER -> ""

\* json.dumps(tool_data.get("arguments", {}))
DumpArguments(tok) ==
    IF tok = jFull THEN "{\"a\": 1}" ELSE "{}"

\* the id call_gemini_{i}_{abs(hash(match)) % 100000}: the index of the match
\* and a value that depends on the matched text only
GeminiId(i, group) == [i |-> i, hash |-> group]

GeminiToolCall(i, group) ==
    [id |-> GeminiId(i, group), type |-> "function",
     function |-> [name |-> GetName(group[1]),
                   arguments |-> DumpArguments(group[1])]]

RECURSIVE ExtractMatches(_, _, _)
ExtractMatches(c, matches, k) ==
    IF k > Len(matches) THEN <<>>
    ELSE LET group == SubSeq(c, matches[k].g0, matches[k].g1) IN
         (IF JsonLoads(group) THEN <<GeminiToolCall(k - 1, group)>> ELSE <<>>)
            \o ExtractMatches(c, matches, k + 1)

has_tool_calls_in_content(content) ==
    content # <<>> /\ FindAll(content, 1) # <<>>

extract_tool_calls_from_content(content) ==
    IF content = <<>> THEN <<>>
    ELSE ExtractMatches(content, FindAll(content, 1), 1)

\* tool_call_pattern.sub("", content)
RECURSIVE SubEmpty(_, _)
SubEmpty(c, p) ==
    IF p > Len(c) THEN <<>>
    ELSE IF MatchAt(c, p).found
         THEN SubEmpty(c, MatchAt(c, p).end + 1)
         ELSE <<c[p]>> \o SubEmpty(c, p + 1)

RECURSIVE Strip(_)
Strip(c) ==
    IF c = <<>> THEN c
    ELSE IF Head(c) = gSp THEN Strip(Tail(c))
    ELSE IF c[Len(c)] = gSp THEN Strip(SubSeq(c, 1, Len(c) - 1))
    ELSE c

remove_tool_call_tags(content) ==
    IF content = <<>> THEN <<>> ELSE Strip(SubEmpty(content, 1))

\* str.lower on a piece of a model name
Lower(piece) ==
    CASE piece = "GEMINI" -> "gemini"
      [] piece = "PaLM" -> "palm"
      [] OTHER -> piece

GeminiKeywords == {"gemini", "bison", "palm"}

is_gemini_model(name) ==
    name # <<>> /\ \E i \in 1..Len(name) : Lower(name[i]) \in GeminiKeywords

ModelNames ==
    {<<>>, <<"gemini", "-2.5-pro">>, <<"models/", "GEMINI">>,
     <<"text-", "bison">>, <<"PaLM", "2">>, <<"gpt", "-4o">>}

\* a tool call the upstream answer already carried
StructuredCall ==
    [id |-> [i |-> 0 - 1, hash |-> <<>>], type |-> "function",
     function |-> [name |-> "f", arguments |-> "{}"]]

\* a choice: message.content (None when isNone), message.tool_calls (absent
\* and empty behave alike) and finish_reason
Choice(content, isNone, tool_calls, finish_reason) ==
    [content |-> content, isNone |-> isNone, tool_calls |-> tool_calls,
     finish_reason |-> finish_reason]

\* the choices an upstream answer can carry: one with tool calls has
\* finish_reason "tool_calls"
ChoicesOver(contents) ==
    {Choice(c, FALSE, <<>>, f) : c \in contents,
                                 f \in {"stop", "length", "tool_calls"}}
      \cup {Choice(c, FALSE, <<StructuredCall>>, "tool_calls") : c \in contents}
      \cup {Choice(<<>>, TRUE, <<>>, "stop"),
            Choice(<<>>, TRUE, <<StructuredCall>>, "tool_calls")}

ShortContents ==
    {<<>>, <<gTxt>>, <<gOpen, jName, gClose>>, <<gOpen, jBad, gClose>>}

ChoiceLists(contents) ==
    {<<>>} \cup {<<ch>> : ch \in ChoicesOver(contents)}
      \cup UNION {[1..n -> ChoicesOver(ShortContents)] : n \in 2..MaxChoices}

\* the body of the for loop of convert_response_data
ConvertChoice(ch) ==
    LET content == IF ch.isNone THEN <<>> ELSE ch.content
        tool_calls == extract_tool_calls_from_content(content)
        cleaned_content == remove_tool_call_tags(content)
    IN  IF ch.tool_calls # <<>> THEN ch
        ELSE IF ~has_tool_calls_in_content(content) THEN ch
        ELSE IF tool_calls = <<>> THEN ch
        ELSE [ch EXCEPT !.tool_calls = tool_calls,
                        !.content = cleaned_content,
                        !.isNone = (cleaned_content = <<>>)]

InitGemini ==
    /\ RegIdle
    /\ ChatIdle
    /\ LateIdle
    /\ DecIdle
    /\ LeakIdle
    /\ ContentIdle
    /\ RespIdle
    /\ IrIdle
    /\ ImgIdle
    /\ model_name \in ModelNames
    /\ response_in \in ChoiceLists(Contents)
    /\ response_data = response_in
    /\ converted = FALSE
    /\ gpc = "called"

\* convert_response_data on a model that is not a Gemini model, or on an
\* answer without choices: the answer is returned as it is
ReturnUnconverted ==
    /\ gpc = "called"
    /\ ~is_gemini_model(model_name) \/ response_data = <<>>
    /\ gpc' = "returned"
    /\ UNCHANGED <<model_name, response_in, response_data, converted>>
    /\ UNCHANGED NotGem

\* convert_response_data on a Gemini model: every choice goes through the
\* loop body
ConvertResponseData ==
    /\ gpc = "called"
    /\ is_gemini_model(model_name)
    /\ response_data # <<>>
    /\ response_data' =
          [i \in 1..Len(response_data) |-> ConvertChoice(response_data[i])]
    /\ converted' = (response_data' # response_data)
    /\ gpc' = "returned"
    /\ UNCHANGED <<model_name, response_in>>
    /\ UNCHANGED NotGem

----------------------------------------------------------------------------
(***************************************************************************)
(* Part 3b.  llmir/complex_ops.py: ArgoComplexOps.p_response_to_ir and     *)
(* types/llmir_impl.py: _send_llmir_non_streaming_request, both building a *)
(* response from the upstream answer {"response": ...}.                     *)
(***************************************************************************)
MaxToolCalls == 2

UpstreamCall(k) == [id |-> k, name |-> "f"]

ToolCallLists == {[i \in 1..n |-> UpstreamCall(i)] : n \in 0..MaxToolCalls}

Strs == {"", "hello"}

ResponseFields ==
    {NoResponseField, ResponseField("other", TRUE, "", TRUE, <<>>)}
      \cup {ResponseField("str", FALSE, s, TRUE, <<>>) : s \in Strs}
      \cup {ResponseField("dict", FALSE, s, FALSE, t) :
               s \in Strs, t \in ToolCallLists}
      \cup {ResponseField("dict", FALSE, s, TRUE, <<>>) : s \in Strs}
      \cup {ResponseField("dict", TRUE, "", FALSE, t) : t \in ToolCallLists}
      \cup {ResponseField("dict", TRUE, "", TRUE, <<>>)}

Statuses == {200, 500}

Upstreams ==
    {[outcome |-> "json", status |-> st, convert_to_openai |-> cv,
      response |-> r] : st \in Statuses, cv \in BOOLEAN, r \in ResponseFields}
      \cup {[outcome |-> o, status |-> st, convert_to_openai |-> cv,
             response |-> NoResponseField] :
               o \in {"invalid_json", "client_response_error"},
               st \in Statuses, cv \in BOOLEAN}

InitResponseBuild ==
    /\ RegIdle
    /\ ChatIdle
    /\ LateIdle
    /\ DecIdle
    /\ LeakIdle
    /\ ContentIdle
    /\ GemIdle
    /\ IrIdle
    /\ ImgIdle
    /\ upstream \in Upstreams
    /\ ir_response = NoIr
    /\ http_response = NoHttp
    /\ rpc = "start"

\* ArgoAtomicOps.p_tool_call_to_ir
p_tool_call_to_ir(tool_call) ==
    [type |-> "tool_call", tool_call_id |-> tool_call.id,
     tool_name |-> tool_call.name]

TextPart(str) == [type |-> "text", text |-> str]

p_response_to_ir(r) ==
    LET content ==
            IF r.kind = "dict"
            THEN (IF ~r.contentNone /\ r.text # ""
                  THEN <<TextPart(r.text)>> ELSE <<>>)
            ELSE IF r.kind = "str" THEN <<TextPart(r.text)>>
            ELSE <<>>
        has_key == r.kind = "dict" /\ ~r.toolCallsNone /\ r.tool_calls # <<>>
        ir_tool_calls ==
            IF has_key
            THEN [i \in 1..Len(r.tool_calls) |->
                     p_tool_call_to_ir(r.tool_calls[i])]
            ELSE <<>>
        has_tool_calls == has_key /\ ir_tool_calls # <<>>
    IN  [built |-> TRUE, content |-> content, hasToolCalls |-> has_key,
         tool_calls |-> ir_tool_calls,
         finish_reason |->
            [reason |-> IF has_tool_calls THEN "tool_calls" ELSE "stop"]]

\* ArgoConverter.parse_argo_response: (response_content, tool_calls)
parse_argo_response(r) ==
    IF r.kind = "dict"
    THEN [contentNone |-> r.contentNone, content |-> r.text,
          toolCallsNone |-> r.toolCallsNone, tool_calls |-> r.tool_calls]
    ELSE IF r.kind = "str"
    THEN [contentNone |-> FALSE, content |-> r.text,
          toolCallsNone |-> TRUE, tool_calls |-> <<>>]
    ELSE [contentNone |-> TRUE, content |-> "",
          toolCallsNone |-> TRUE, tool_calls |-> <<>>]

ErrorResponse(type, status) ==
    [kind |-> "error", status |-> status, type |-> type, contentNone |-> TRUE,
     content |-> "", toolCallsNone |-> TRUE, tool_calls |-> <<>>,
     finish_reason |-> ""]

send_llmir_non_streaming_request(up) ==
    LET parsed == parse_argo_response(up.response) IN
    IF up.outcome = "client_response_error"
    THEN ErrorResponse("upstream_api_error", up.status)
    ELSE IF up.outcome = "invalid_json"
    THEN ErrorResponse("upstream_invalid_json", 502)
    ELSE IF ~up.convert_to_openai
    THEN [NoHttp EXCEPT !.kind = "passthrough", !.status = up.status]
    ELSE IF parsed.contentNone /\ parsed.tool_calls = <<>>
    THEN ErrorResponse("upstream_no_response", 502)
    ELSE [kind |-> "completion", status |-> up.status, type |-> "",
          contentNone |-> parsed.contentNone, content |-> parsed.content,
          toolCallsNone |-> parsed.toolCallsNone,
          tool_calls |-> parsed.tool_calls,
          finish_reason |->
             IF parsed.tool_calls # <<>> THEN "tool_calls" ELSE "stop"]

PResponseToIr ==
    /\ rpc \in {"start", "sent"}
    /\ upstream.outcome = "json"
    /\ ~ir_response.built
    /\ ir_response' = p_response_to_ir(upstream.response)
    /\ UNCHANGED <<upstream, http_response, rpc>>
    /\ UNCHANGED NotResp

SendNonStreaming ==
    /\ rpc = "start"
    /\ http_response' = send_llmir_non_streaming_request(upstream)
    /\ rpc' = "sent"
    /\ UNCHANGED <<upstream, ir_response>>
    /\ UNCHANGED NotResp

InitResponse == InitGemini \/ InitResponseBuild

NextResponse ==
    \/ ReturnUnconverted
    \/ ConvertResponseData
    \/ PResponseToIr
    \/ SendNonStreaming

SpecResponse == InitResponse /\ [][NextResponse]_vars

\* C9: for a Gemini model and a choice without structured tool calls, the
\* converter emits one synthesised tool call for each matched block whose
\* JSON parses and contains name, and none for any other matched block: the
\* tool calls of the rewritten choice are as many as the matched blocks with
\* a name, and each carries the name of its block.
BlocksWithName(matches, c) ==
    {k \in 1..Len(matches) :
        /\ matches[k].g0 = matches[k].g1
        /\ c[matches[k].g0] \in {jFull, jName}}

OneCallPerNamedBlock ==
    gpc = "returned" /\ is_gemini_model(model_name) =>
       \A n \in 1..Len(response_in) :
          (response_in[n].tool_calls = <<>> /\ ~response_in[n].isNone) =>
             LET c == response_in[n].content
                 named == BlocksWithName(FindAll(c, 1), c)
                 emitted == response_data[n].tool_calls
             IN  /\ Len(emitted) = Cardinality(named)
                 /\ \A k \in 1..Len(emitted) :
                       emitted[k].function.name # ""

\* C10: in every response built or rewritten, a choice whose message carries
\* a non-empty tool_calls list has finish_reason tool_calls: the IR response
\* of p_response_to_ir, the completion of _send_llmir_non_streaming_request,
\* and every choice of a response that convert_response_data returned.
ToolCallsImplyFinishReason ==
    /\ (ir_response.built /\ ir_response.tool_calls # <<>>) =>
          ir_response.finish_reason.reason = "tool_calls"
    /\ (http_response.kind = "completion" /\ http_response.tool_calls # <<>>)
          => http_response.finish_reason = "tool_calls"
    /\ gpc = "returned" =>
          \A n \in 1..Len(response_data) :
             response_data[n].tool_calls # <<>> =>
                response_data[n].finish_reason = "tool_calls"

----------------------------------------------------------------------------
(***************************************************************************)
(* Part 4.  llmir/atomic_ops.py and llmir/complex_ops.py: an IR message or *)
(* IR request is converted to the Argo wire format and back.               *)
(*                                                                         *)
(* IR content parts and wire content parts are records of one shape; a key *)
(* that a dictionary does not have is the empty value here.  A text is a   *)
(* sequence of strings, a URL is the sequence of its pieces.               *)
(***************************************************************************)
MaxParts == 2
MaxMessages == 2

BlankPart ==
    [type |-> "", key |-> "", text |-> <<>>, url |-> <<>>, media_type |-> "",
     data |-> "", detail |-> "", id |-> "", name |-> "", arguments |-> "",
     tool_call_id |-> "", content |-> "", role |-> ""]

\* IR content parts
IrText(str) == [BlankPart EXCEPT !.type = "text", !.text = <<str>>]

IrImageUrl(url, detail) ==
    [BlankPart EXCEPT !.type = "image", !.key = "image_url", !.url = url,
                      !.detail = detail]

IrImageData(media_type, data, detail) ==
    [BlankPart EXCEPT !.type = "image", !.key = "image_data",
                      !.media_type = media_type, !.data = data,
                      !.detail = detail]

IrToolCall(id) ==
    [BlankPart EXCEPT !.type = "tool_call", !.id = id, !.name = "f",
                      !.arguments = "{}"]

IrToolResult(id, content) ==
    [BlankPart EXCEPT !.type = "tool_result", !.tool_call_id = id,
                      !.content = content]

IrFile == [BlankPart EXCEPT !.type = "file"]

\* f"data:{media_type};base64,{data}"
DataUrl(media_type, data) == <<"data:", media_type, ";base64,", data>>

HttpUrl == <<"https://", "example.org/a.png">>

\* utils/image_processing.py
is_http_url(url) == url # <<>> /\ url[1] \in {"http://", "https://"}

\* re.match(r"data:([^;]+);base64,(.+)", url)
DataUrlMatch(url) ==
    /\ Len(url) = 4
    /\ url[1] = "data:"
    /\ url[2] # ""
    /\ url[3] = ";base64,"
    /\ url[4] # ""

\* wire content parts
WireText(txt) == [BlankPart EXCEPT !.type = "text", !.text = txt]

WireImage(url, detail) ==
    [BlankPart EXCEPT !.type = "image_url", !.url = url, !.detail = detail]

\* the OpenAI-family tool call that the llmir library's converter emits
WireToolCall(tc) ==
    [BlankPart EXCEPT !.type = "function", !.id = tc.id, !.name = tc.name,
                      !.arguments = tc.arguments]

\* str(d) of a wire dictionary d
Repr(d) ==
    <<"str(dict)", d.type, d.role, d.tool_call_id, d.content, d.id, d.name,
      d.arguments>>

HttpImageError == "Argo does not support HTTP/HTTPS image URLs."
NoImageError == "ImagePart must have either image_url or image_data"
FileError == "File handling is not yet implemented."

\* ArgoAtomicOps.ir_image_to_p: the wire part, or the message of the
\* ValueError it raises
ir_image_to_p(image_part) ==
    IF image_part.key = "image_url" /\ image_part.url # <<>>
    THEN IF is_http_url(image_part.url)
         THEN [raised |-> TRUE, error |-> HttpImageError, part |-> BlankPart]
         ELSE [raised |-> FALSE, error |-> "",
               part |-> WireImage(image_part.url, image_part.detail)]
    ELSE IF image_part.key = "image_data"
    THEN [raised |-> FALSE, error |-> "",
          part |-> WireImage(DataUrl(image_part.media_type, image_part.data),
                             image_part.detail)]
    ELSE [raised |-> TRUE, error |-> NoImageError, part |-> BlankPart]

\* ArgoAtomicOps.ir_tool_result_to_p
ir_tool_result_to_p(p) ==
    [BlankPart EXCEPT !.role = "tool", !.tool_call_id = p.tool_call_id,
                      !.content = p.content]

ConversionError(error) == WireText(<<"[Conversion Error: ", error, "]">>)

\* ArgoComplexOps.ir_content_part_to_p: the wire part and the number of
\* warnings
ir_content_part_to_p(p) ==
    CASE p.type = "text" -> [part |-> WireText(p.text), warnings |-> 0]
      [] p.type = "image" ->
            IF ir_image_to_p(p).raised
            THEN [part |-> ConversionError(ir_image_to_p(p).error),
                  warnings |-> 1]
            ELSE [part |-> ir_image_to_p(p).part, warnings |-> 0]
      [] p.type = "file" ->
            [part |-> ConversionError(FileError), warnings |-> 1]
      [] p.type = "tool_call" -> [part |-> WireToolCall(p), warnings |-> 0]
      [] p.type = "tool_result" ->
            [part |-> ir_tool_result_to_p(p), warnings |-> 0]
      [] OTHER -> [part |-> WireText(Repr(p)), warnings |-> 1]

\* a message, IR or wire: content is a bare string (kind "str") or a list
Message(role, kind, str, parts, has_tool_calls, tool_calls, tool_call_id) ==
    [role |-> role, kind |-> kind, str |-> str, parts |-> parts,
     has_tool_calls |-> has_tool_calls, tool_calls |-> tool_calls,
     tool_call_id |-> tool_call_id]

RECURSIVE SumWarnings(_, _)
SumWarnings(parts, i) ==
    IF i > Len(parts) THEN 0
    ELSE ir_content_part_to_p(parts[i]).warnings + SumWarnings(parts, i + 1)

\* ArgoComplexOps.ir_message_to_p, the message returned
ir_message_to_p(m) ==
    LET argo_content ==
            [i \in 1..Len(m.parts) |-> ir_content_part_to_p(m.parts[i]).part]
        single == Len(argo_content) = 1 /\ argo_content[1].type = "text"
    IN  Message(m.role,
                IF m.kind = "str" \/ single THEN "str" ELSE "list",
                IF m.kind = "str" THEN m.str
                ELSE IF single THEN argo_content[1].text ELSE <<>>,
                IF m.kind = "str" \/ single THEN <<>> ELSE argo_content,
                m.has_tool_calls,
                [i \in 1..Len(m.tool_calls) |-> WireToolCall(m.tool_calls[i])],
                m.tool_call_id)

\* ArgoComplexOps.ir_message_to_p, the number of warnings returned
MessageWarnings(m) ==
    IF m.kind = "str" THEN 0 ELSE SumWarnings(m.parts, 1)

\* ArgoAtomicOps.p_image_to_ir
p_image_to_ir(p) ==
    IF p.url # <<>> /\ p.url[1] = "data:" /\ DataUrlMatch(p.url)
    THEN IrImageData(p.url[2], p.url[4], p.detail)
    ELSE IrImageUrl(p.url, p.detail)

\* the llmir library's converter, an OpenAI-family tool call back to IR
p_wire_tool_call_to_ir(p) ==
    [BlankPart EXCEPT !.type = "tool_call", !.id = p.id, !.name = p.name,
                      !.arguments = p.arguments]

\* ArgoAtomicOps.p_tool_result_to_ir
p_tool_result_to_ir(p) == IrToolResult(p.tool_call_id, p.content)

\* ArgoAtomicOps.p_content_part_to_ir on a dictionary
p_content_part_to_ir(p) ==
    CASE p.type = "text" -> [BlankPart EXCEPT !.type = "text", !.text = p.text]
      [] p.type = "image_url" -> p_image_to_ir(p)
      [] p.type = "tool_call" -> p_wire_tool_call_to_ir(p)
      [] p.type = "tool_result" -> p_tool_result_to_ir(p)
      [] OTHER -> [BlankPart EXCEPT !.type = "text", !.text = Repr(p)]

\* ArgoComplexOps.p_message_to_ir
p_message_to_ir(w) ==
    Message(w.role, "list", <<>>,
            IF w.kind = "str"
            THEN <<[BlankPart EXCEPT !.type = "text", !.text = w.str]>>
            ELSE [i \in 1..Len(w.parts) |-> p_content_part_to_ir(w.parts[i])],
            w.has_tool_calls,
            [i \in 1..Len(w.tool_calls) |->
                p_wire_tool_call_to_ir(w.tool_calls[i])],
            w.tool_call_id)

\* an IR request or wire request: its messages and its tools ("absent",
\* "empty" for [], "some"); an IR message alone has level "message"
Data(level, messages, tools) ==
    [level |-> level, messages |-> messages, tools |-> tools]

\* ArgoComplexOps.ir_request_to_p, the request returned: tools are copied
\* when the key is there and the list is not empty
ir_request_to_p(r) ==
    Data(r.level,
         [i \in 1..Len(r.messages) |-> ir_message_to_p(r.messages[i])],
         IF r.tools = "some" THEN "some" ELSE "absent")

RECURSIVE RequestWarnings(_, _)
RequestWarnings(messages, i) ==
    IF i > Len(messages) THEN 0
    ELSE MessageWarnings(messages[i]) + RequestWarnings(messages, i + 1)

\* ArgoComplexOps.p_request_to_ir
p_request_to_ir(w) ==
    Data(w.level,
         [i \in 1..Len(w.messages) |-> p_message_to_ir(w.messages[i])],
         w.tools)

IrParts ==
    {IrText(""), IrText("hi"),
     IrImageUrl(DataUrl("image/png", "AAAA"), "auto"),
     IrImageUrl(DataUrl("image/png", "AAAA"), "high"),
     IrImageUrl(HttpUrl, "auto"),
     IrImageData("image/png", "AAAA", "auto"),
     IrImageData("image/png", "AAAA", "high"),
     IrImageData("image/png", "", "auto"),
     IrToolCall("call_1"), IrToolResult("call_1", "42"), IrFile}

PartLists == UNION {[1..n -> IrParts] : n \in 0..MaxParts}

IrMessages ==
    {Message(role, "list", <<>>, parts, FALSE, <<>>, id) :
        role \in {"user", "assistant", "tool"}, parts \in PartLists,
        id \in {"", "call_1"}}
      \cup {Message("assistant", "list", <<>>, parts, TRUE, tcs, "") :
               parts \in PartLists,
               tcs \in {<<IrToolCall("call_1")>>,
                        <<IrToolCall("call_1"), IrToolCall("call_2")>>}}
      \cup {Message(role, "str", <<str>>, <<>>, FALSE, <<>>, "") :
               role \in {"system", "user"}, str \in {"", "hi"}}

\* the messages that requests of several messages are made of
ShortMessages ==
    {Message("user", "list", <<>>, <<p>>, FALSE, <<>>, "") : p \in IrParts}
      \cup {Message("system", "str", <<"hi">>, <<>>, FALSE, <<>>, ""),
            Message("assistant", "list", <<>>, <<>>, TRUE,
                    <<IrToolCall("call_1")>>, "")}

IrRequests ==
    {Data("request", msgs, tools) :
        msgs \in UNION {[1..n -> ShortMessages] : n \in 0..MaxMessages},
        tools \in {"absent", "empty", "some"}}

InitIr ==
    /\ RegIdle
    /\ ChatIdle
    /\ LateIdle
    /\ DecIdle
    /\ LeakIdle
    /\ ContentIdle
    /\ GemIdle
    /\ RespIdle
    /\ ImgIdle
    /\ ir_in \in {Data("message", <<m>>, "absent") : m \in IrMessages}
                   \cup IrRequests
    /\ argo_out = NoData
    /\ conv_warnings = 0
    /\ ir_back = NoData
    /\ ipc = "start"

IrMessageToP ==
    /\ ipc = "start"
    /\ ir_in.level = "message"
    /\ argo_out' = Data("message", <<ir_message_to_p(ir_in.messages[1])>>,
                        "absent")
    /\ conv_warnings' = MessageWarnings(ir_in.messages[1])
    /\ ipc' = "wire"
    /\ UNCHANGED <<ir_in, ir_back>>
    /\ UNCHANGED NotIr

PMessageToIr ==
    /\ ipc = "wire"
    /\ argo_out.level = "message"
    /\ ir_back' = Data("message", <<p_message_to_ir(argo_out.messages[1])>>,
                       "absent")
    /\ ipc' = "back"
    /\ UNCHANGED <<ir_in, argo_out, conv_warnings>>
    /\ UNCHANGED NotIr

IrRequestToP ==
    /\ ipc = "start"
    /\ ir_in.level = "request"
    /\ argo_out' = ir_request_to_p(ir_in)
    /\ conv_warnings' = RequestWarnings(ir_in.messages, 1)
    /\ ipc' = "wire"
    /\ UNCHANGED <<ir_in, ir_back>>
    /\ UNCHANGED NotIr

PRequestToIr ==
    /\ ipc = "wire"
    /\ argo_out.level = "request"
    /\ ir_back' = p_request_to_ir(argo_out)
    /\ ipc' = "back"
    /\ UNCHANGED <<ir_in, argo_out, conv_warnings>>
    /\ UNCHANGED NotIr

NextIr == IrMessageToP \/ PMessageToIr \/ IrRequestToP \/ PRequestToIr

SpecIr == InitIr /\ [][NextIr]_vars

\* the documented normalisation: a bare string is a single text part
NormMessage(m) ==
    IF m.kind = "str"
    THEN [m EXCEPT !.kind = "list", !.str = <<>>,
                   !.parts = <<[BlankPart EXCEPT !.type = "text",
                                                 !.text = m.str]>>]
    ELSE m

NormData(d) ==
    [d EXCEPT !.messages = [i \in 1..Len(d.messages) |->
                               NormMessage(d.messages[i])]]

HasHttpImage(d) ==
    \E i \in 1..Len(d.messages) : \E j \in 1..Len(d.messages[i].parts) :
        /\ d.messages[i].parts[j].type = "image"
        /\ is_http_url(d.messages[i].parts[j].url)

HasFile(d) ==
    \E i \in 1..Len(d.messages) : \E j \in 1..Len(d.messages[i].parts) :
        d.messages[i].parts[j].type = "file"

\* C11: the round trip through the Argo wire format is the identity on IR
\* messages and IR requests built from Text, Image (data URL or image
\* data), ToolCall and ToolResult parts, up to the normalisation of a bare
\* string to a single text part.
RoundTripIsIdentity ==
    (ipc = "back" /\ ~HasHttpImage(ir_in) /\ ~HasFile(ir_in)) =>
        ir_back = NormData(ir_in)

\* C12: converting an IR request with an Image part whose image_url is an
\* http:// or https:// URL produces no upstream request body.
HttpImageYieldsNoBody ==
    (ipc \in {"wire", "back"} /\ ir_in.level = "request"
        /\ HasHttpImage(ir_in)) => argo_out = NoData

----------------------------------------------------------------------------
(***************************************************************************)
(* Part 5.  utils/image_processing.py: download_image_to_base64 and        *)
(* process_chat_images.  A body is the sequence of its bytes.              *)
(***************************************************************************)
SUPPORTED_IMAGE_FORMATS ==
    {"image/png", "image/jpeg", "image/jpg", "image/webp", "image/gif"}

SUPPORTED_EXTENSIONS == {".png", ".jpg", ".jpeg", ".webp", ".gif"}

PngSignature == <<137, 80, 78, 71, 13, 10, 26, 10>>
JpegSignature == <<255, 216, 255>>
Riff == <<82, 73, 70, 70>>
Webp == <<87, 69, 66, 80>>
Gif87a == <<71, 73, 70, 56, 55, 97>>
Gif89a == <<71, 73, 70, 56, 57, 97>>

\* image_data[a:b] with a, b counted from 0
Slice(image_data, a, b) ==
    SubSeq(image_data, a + 1, IF b < Len(image_data) THEN b
                                                     ELSE Len(image_data))

\* str.lower on a Content-Type and on a path suffix
LowerType(content_type) ==
    IF content_type = "IMAGE/PNG" THEN "image/png" ELSE content_type

LowerExt(ext) == IF ext = ".PNG" THEN ".png" ELSE ext

\* mimetypes.guess_type(url)[0], "" for None: the suffix is what follows
\* the last dot of the URL, query included
guess_type(url) ==
    IF url.query # "" THEN ""
    ELSE CASE LowerExt(url.ext) = ".png" -> "image/png"
           [] LowerExt(url.ext) \in {".jpg", ".jpeg"} -> "image/jpeg"
           [] LowerExt(url.ext) = ".webp" -> "image/webp"
           [] LowerExt(url.ext) = ".gif" -> "image/gif"
           [] LowerExt(url.ext) = ".txt" -> "text/plain"
           [] OTHER -> ""

is_supported_image_format(content_type, url) ==
    \/ content_type # "" /\ LowerType(content_type) \in SUPPORTED_IMAGE_FORMATS
    \/ LowerExt(url.ext) \in SUPPORTED_EXTENSIONS

validate_image_content(image_data, content_type) ==
    IF image_data = <<>> \/ Len(image_data) < 8 THEN FALSE
    ELSE CASE content_type = "image/png" ->
                 Slice(image_data, 0, 8) = PngSignature
           [] content_type \in {"image/jpeg", "image/jpg"} ->
                 Slice(image_data, 0, 3) = JpegSignature
           [] content_type = "image/webp" ->
                 /\ Len(image_data) >= 12
                 /\ Slice(image_data, 0, 4) = Riff
                 /\ Slice(image_data, 8, 12) = Webp
           [] content_type = "image/gif" ->
                 \/ Slice(image_data, 0, 6) = Gif87a
                 \/ Slice(image_data, 0, 6) = Gif89a
           [] OTHER -> TRUE

\* f"data:{content_type};base64,{b64_data}"
Base64DataUrl(content_type, image_data) ==
    Url("data:", "", "", "", "", content_type, image_data)

\* the Content-Type that download_image_to_base64 goes on with
DeclaredType(url, response) ==
    IF LowerType(response.content_type) # ""
    THEN LowerType(response.content_type)
    ELSE IF guess_type(url) # "" THEN guess_type(url)
    ELSE "application/octet-stream"

download_image_to_base64(url, response) ==
    IF url.prefix = "" \/ url.host = "" THEN NoneResult
    ELSE IF response.outcome # "response" THEN NoneResult
    ELSE IF response.status # 200 THEN NoneResult
    ELSE IF ~is_supported_image_format(DeclaredType(url, response), url)
    THEN NoneResult
    ELSE IF ~validate_image_content(response.body, DeclaredType(url, response))
    THEN NoneResult
    ELSE [isNone |-> FALSE,
          url |-> Base64DataUrl(DeclaredType(url, response), response.body)]

Tail4 == <<0, 0, 0, 16>>

Bodies ==
    {<<>>, PngSignature, PngSignature \o Tail4, JpegSignature,
     JpegSignature \o Tail4 \o <<74>>, Riff \o Tail4 \o Webp,
     Riff \o Tail4, Riff \o Tail4 \o <<87, 65, 86, 69>>,
     Gif87a \o <<1, 0>>, Gif89a \o <<1, 0>>,
     <<60, 104, 116, 109, 108, 62, 60, 47, 62>>}

ContentTypes ==
    {"", "image/png", "IMAGE/PNG", "image/jpeg", "image/jpg", "image/webp",
     "image/gif", "text/html", "image/png; charset=binary"}

Exts == {"", ".png", ".jpg", ".jpeg", ".webp", ".gif", ".txt", ".PNG"}

DownloadUrls ==
    {Url(prefix, host, "/a", ext, query, "", <<>>) :
        prefix \in {"https://", "http://"}, host \in {"", "h"},
        ext \in Exts, query \in {"", "?x=1"}}

GetResponse(status, content_type, image_data) ==
    [outcome |-> "response", status |-> status,
     content_type |-> content_type, body |-> image_data]

GetFailure(outcome) ==
    [outcome |-> outcome, status |-> 0, content_type |-> "", body |-> <<>>]

GetResponses ==
    {GetFailure(o) : o \in {"timeout", "error"}}
      \cup {GetResponse(st, ct, b) :
               st \in {200, 404}, ct \in ContentTypes, b \in Bodies}

InitDownload ==
    /\ RegIdle
    /\ ChatIdle
    /\ LateIdle
    /\ DecIdle
    /\ LeakIdle
    /\ ContentIdle
    /\ GemIdle
    /\ RespIdle
    /\ IrIdle
    /\ dl_url \in DownloadUrls
    /\ dl_response \in GetResponses
    /\ dl_result = NoneResult
    /\ payload = NoPayload
    /\ fetch = <<>>
    /\ payload1 = NoPayload
    /\ fetched1 = {}
    /\ payload2 = NoPayload
    /\ fetched2 = {}
    /\ imgpc = "download"

Download ==
    /\ imgpc = "download"
    /\ dl_result' = download_image_to_base64(dl_url, dl_response)
    /\ imgpc' = "downloaded"
    /\ UNCHANGED <<dl_url, dl_response, payload, fetch, payload1, fetched1,
                   payload2, fetched2>>
    /\ UNCHANGED NotImg

\* the magic number of a MIME type at the start of a body
MagicMatches(mime, image_data) ==
    CASE mime = "image/png" -> Slice(image_data, 0, 8) = PngSignature
      [] mime = "image/jpeg" -> Slice(image_data, 0, 3) = JpegSignature
      [] mime = "image/webp" ->
            Slice(image_data, 0, 4) = Riff /\ Slice(image_data, 8, 12) = Webp
      [] mime = "image/gif" -> Slice(image_data, 0, 6) \in {Gif87a, Gif89a}
      [] OTHER -> FALSE

\* C13: download_image_to_base64 returns a data URL only if the status is
\* 200, the MIME type written into the data URL is one of image/png,
\* image/jpeg, image/webp, image/gif, that type comes from the URL suffix
\* only when there is no Content-Type header, and the body starts with the
\* magic number of that type.
DataUrlOnlyForValidImage ==
    (imgpc = "downloaded" /\ ~dl_result.isNone) =>
        /\ dl_response.outcome = "response"
        /\ dl_response.status = 200
        /\ dl_result.url.mime
              \in {"image/png", "image/jpeg", "image/webp", "image/gif"}
        /\ dl_response.content_type # "" =>
              dl_result.url.mime = LowerType(dl_response.content_type)
        /\ MagicMatches(dl_result.url.mime, dl_result.url.body)

MaxImgParts == 2
MaxImgMessages == 2

is_data_url(url) == url.prefix = "data:"

\* is_http_url on a URL of this part
HasHttpPrefix(url) == url.prefix \in {"http://", "https://"}

\* a content part of a chat message: a dictionary with type and, for
\* image_url, the URL; or a value that is not a dictionary
ContentPart(is_dict, type, url) ==
    [is_dict |-> is_dict, type |-> type, url |-> url]

\* a chat message: a dictionary whose content is a string or a list; or a
\* value that is not a dictionary
ChatMessage(is_dict, kind, parts) ==
    [is_dict |-> is_dict, kind |-> kind, parts |-> parts]

collect_image_urls_from_content_part(content_part) ==
    IF content_part.type # "image_url" THEN {}
    ELSE IF is_data_url(content_part.url) THEN {}
    ELSE IF HasHttpPrefix(content_part.url) THEN {content_part.url}
    ELSE {}

collect_image_urls_from_message(message) ==
    IF message.kind # "list" THEN {}
    ELSE UNION {IF message.parts[i].is_dict
                THEN collect_image_urls_from_content_part(message.parts[i])
                ELSE {} : i \in 1..Len(message.parts)}

apply_downloaded_images_to_content_part(content_part, url_to_base64) ==
    IF content_part.type # "image_url" THEN content_part
    ELSE IF is_data_url(content_part.url) THEN content_part
    ELSE IF /\ content_part.url \in DOMAIN url_to_base64
            /\ ~url_to_base64[content_part.url].isNone
         THEN [content_part EXCEPT !.url = url_to_base64[content_part.url].url]
         ELSE content_part

RECURSIVE ApplyTwice(_, _, _)
ApplyTwice(parts, url_to_base64, i) ==
    IF i > Len(parts) THEN <<>>
    ELSE LET p == IF parts[i].is_dict
                  THEN apply_downloaded_images_to_content_part(parts[i],
                                                               url_to_base64)
                  ELSE parts[i]
         IN  <<p, p>> \o ApplyTwice(parts, url_to_base64, i + 1)

apply_appending_twice(message, url_to_base64) ==
    IF message.kind # "list" THEN message
    ELSE [message EXCEPT !.parts = ApplyTwice(message.parts, url_to_base64, 1)]

apply_downloaded_images_to_message(message, url_to_base64) ==
    IF message.kind # "list" THEN message
    ELSE [message EXCEPT !.parts =
            [i \in 1..Len(message.parts) |->
                IF message.parts[i].is_dict
                THEN apply_downloaded_images_to_content_part(message.parts[i],
                                                             url_to_base64)
                ELSE message.parts[i]]]

\* Step 1 of process_chat_images: the URLs it downloads
all_urls(data) ==
    IF ~data.has_messages \/ ~data.is_list THEN {}
    ELSE UNION {IF data.messages[i].is_dict
                THEN collect_image_urls_from_message(data.messages[i])
                ELSE {} : i \in 1..Len(data.messages)}

\* the answer of session.get for a URL
GetFor(get, url) ==
    IF url \in DOMAIN get THEN get[url] ELSE GetFailure("error")

process_chat_images(data, get) ==
    IF all_urls(data) = {} THEN data
    ELSE LET url_to_base64 ==
                [u \in all_urls(data) |->
                    download_image_to_base64(u, GetFor(get, u))]
         IN  [data EXCEPT !.messages =
                [i \in 1..Len(data.messages) |->
                    IF data.messages[i].is_dict
                    THEN apply_downloaded_images_to_message(data.messages[i],
                                                            url_to_base64)
                    ELSE data.messages[i]]]

UrlA == Url("https://", "h", "/a", ".png", "", "", <<>>)
UrlB == Url("http://", "h", "/b", ".jpg", "", "", <<>>)
UrlFtp == Url("ftp://", "h", "/c", ".png", "", "", <<>>)
UrlData == Base64DataUrl("image/png", PngSignature)

PayloadUrls == {UrlA, UrlB}

FetchOutcomes ==
    {GetResponse(200, "image/png", PngSignature),
     GetResponse(200, "text/html", <<60, 104, 116, 109, 108, 62, 60, 47, 62>>),
     GetResponse(404, "", <<>>),
     GetFailure("timeout")}

ContentParts ==
    {ContentPart(TRUE, "text", NoUrl), ContentPart(FALSE, "", NoUrl)}
      \cup {ContentPart(TRUE, "image_url", u) :
               u \in {UrlA, UrlB, UrlFtp, UrlData}}

ChatMessages ==
    {ChatMessage(FALSE, "none", <<>>), ChatMessage(TRUE, "str", <<>>)}
      \cup {ChatMessage(TRUE, "list", parts) :
               parts \in UNION {[1..n -> ContentParts] : n \in 0..MaxImgParts}}

Payloads ==
    {NoPayload, [has_messages |-> TRUE, is_list |-> FALSE, messages |-> <<>>]}
      \cup {[has_messages |-> TRUE, is_list |-> TRUE, messages |-> msgs] :
               msgs \in UNION {[1..n -> ChatMessages] :
                                  n \in 0..MaxImgMessages}}

InitPipeline ==
    /\ RegIdle
    /\ ChatIdle
    /\ LateIdle
    /\ DecIdle
    /\ LeakIdle
    /\ ContentIdle
    /\ GemIdle
    /\ RespIdle
    /\ IrIdle
    /\ dl_url = NoUrl
    /\ dl_response = NoGet
    /\ dl_result = NoneResult
    /\ payload \in Payloads
    /\ fetch \in [PayloadUrls -> FetchOutcomes]
    /\ payload1 = NoPayload
    /\ fetched1 = {}
    /\ payload2 = NoPayload
    /\ fetched2 = {}
    /\ imgpc = "pass0"

\* process_chat_images on the request payload
FirstPass ==
    /\ imgpc = "pass0"
    /\ payload1' = process_chat_images(payload, fetch)
    /\ fetched1' = all_urls(payload)
    /\ imgpc' = "pass1"
    /\ UNCHANGED <<dl_url, dl_response, dl_result, payload, fetch, payload2,
                   fetched2>>
    /\ UNCHANGED NotImg

\* process_chat_images on its own output
SecondPass ==
    /\ imgpc = "pass1"
    /\ payload2' = process_chat_images(payload1, fetch)
    /\ fetched2' = all_urls(payload1)
    /\ imgpc' = "pass2"
    /\ UNCHANGED <<dl_url, dl_response, dl_result, payload, fetch, payload1,
                   fetched1>>
    /\ UNCHANGED NotImg

InitImages == InitDownload \/ InitPipeline

NextImages == Download \/ FirstPass \/ SecondPass

SpecImages == InitImages /\ [][NextImages]_vars

\* every image URL of a payload is a data URL
AllDataUrls(data) ==
    \A i \in 1..Len(data.messages) : \A j \in 1..Len(data.messages[i].parts) :
        data.messages[i].parts[j].type = "image_url" =>
            is_data_url(data.messages[i].parts[j].url)

\* C14: the image pipeline is idempotent: process_chat_images on its own
\* output, with the same answer per URL, returns that output; and on a
\* payload whose image URLs are all data URLs it fetches nothing and returns
\* the payload as it is.
PipelineIdempotent ==
    /\ imgpc = "pass2" => payload2 = payload1
    /\ (imgpc \in {"pass1", "pass2"} /\ AllDataUrls(payload)) =>
          fetched1 = {} /\ payload1 = payload

\* a second pass over a payload of which the first pass converted one URL and
\* failed on another, which the second pass fetched again
SecondPassAfterConversion ==
    /\ imgpc = "pass2"
    /\ payload1 # payload
    /\ fetched2 # {}

----------------------------------------------------------------------------
(***************************************************************************)
(* Part 6.  The model registry.  A model name is a sequence of pieces:     *)
(* "argo" and "ARGO" (the family), ":" and "/", "x", "X", "y", "e" (names  *)
(* after the family, such as gpt-4o), "xi", "yi", "ei" (internal ids, such *)
(* as gpt4o) and "zz" (a name no catalogue knows).                         *)
(***************************************************************************)
MaxNameLen == 3

NameTokens ==
    {"argo", "ARGO", ":", "/", "x", "X", "y", "e", "xi", "yi", "ei", "zz"}

Names == UNION {[1..n -> NameTokens] : n \in 0..MaxNameLen}

\* str.lower()
LowerToken(t) == IF t = "ARGO" THEN "argo" ELSE IF t = "X" THEN "x" ELSE t

lower(s) == [i \in 1..Len(s) |-> LowerToken(s[i])]

\* str.replace("/", ":")
replace_slash(s) == [i \in 1..Len(s) |-> IF s[i] = "/" THEN ":" ELSE s[i]]

ArgoPrefix == <<"argo", ":">>

has_family_prefix(s) == Len(s) >= 2 /\ SubSeq(s, 1, 2) = ArgoPrefix

\* a model entry
ModelEntry(alias_key, internal_id, type) ==
    [alias_key |-> alias_key, internal_id |-> internal_id, type |-> type]

EntryX == ModelEntry(<<"argo", ":", "x">>, <<"xi">>, "chat")
EntryY == ModelEntry(<<"argo", ":", "y">>, <<"yi">>, "chat")
EntryE == ModelEntry(<<"argo", ":", "e">>, <<"ei">>, "embed")

\* the catalogues the upstream can serve
Catalogues == {{EntryX, EntryE}, {EntryX, EntryY, EntryE}}

\* the registry built from one catalogue
RegistryOf(c) ==
    [aliases |-> c, internal_to_entry |-> {e.internal_id : e \in c}]

CompleteRegistries == {RegistryOf(c) : c \in Catalogues}

\* the alias key of the default model of a type
DefaultKey(type) ==
    IF type = "chat" THEN <<"argo", ":", "x">> ELSE <<"argo", ":", "e">>

Resolved(id) == [raised |-> FALSE, id |-> id]

KeyError == [raised |-> TRUE, id |-> <<>>]

\* dict lookup: avail_models[key]
Lookup(avail_models, key) ==
    IF \E e \in avail_models : e.alias_key = key
    THEN Resolved((CHOOSE e \in avail_models : e.alias_key = key).internal_id)
    ELSE KeyError

\* the candidate keys of a name when none gets the family put in front
CandidatesWithoutPrefix(name) ==
    LET c3 == replace_slash(name)
        c4 == lower(c3)
    IN  <<name, c3, c4, c4>>

\* the candidate keys of a name, in the order they are tried
Candidates(name) ==
    LET c3 == replace_slash(name)
        c4 == lower(c3)
        c5 == IF has_family_prefix(c4) THEN c4 ELSE ArgoPrefix \o c4
    IN  <<name, c3, c4, c5>>

\* ModelRegistry.resolve_model_name(model_name, model_type)
ModelRegistry_resolve_model_name(reg, name, type) ==
    LET c == Candidates(name) IN
    IF ~Lookup(reg.aliases, c[1]).raised THEN Lookup(reg.aliases, c[1])
    ELSE IF name \in reg.internal_to_entry THEN Resolved(name)
    ELSE IF ~Lookup(reg.aliases, c[2]).raised THEN Lookup(reg.aliases, c[2])
    ELSE IF ~Lookup(reg.aliases, c[3]).raised THEN Lookup(reg.aliases, c[3])
    ELSE IF ~Lookup(reg.aliases, c[4]).raised THEN Lookup(reg.aliases, c[4])
    ELSE Lookup(reg.aliases, DefaultKey(type))

\* argoproxy.constants.ALL_MODELS
ALL_MODELS == {EntryX, EntryE}

\* utils.resolve_model_name with a last line that looks the name itself up
resolve_model_name_without_default(name, default_model, avail) ==
    LET avail_models == IF avail = {} THEN ALL_MODELS ELSE avail IN
    IF name \in {e.internal_id : e \in avail_models}
    THEN Resolved(name)
    ELSE Lookup(avail_models, name)

\* utils.resolve_model_name(model_name, default_model, avail_models)
resolve_model_name(name, default_model, avail) ==
    LET avail_models == IF avail = {} THEN ALL_MODELS ELSE avail IN
    IF name \in {e.internal_id : e \in avail_models}
    THEN Resolved(name)
    ELSE IF ~Lookup(avail_models, name).raised
    THEN Lookup(avail_models, name)
    ELSE Lookup(avail_models, default_model)

InitResolve ==
    /\ DecIdle
    /\ LeakIdle
    /\ ContentIdle
    /\ GemIdle
    /\ RespIdle
    /\ IrIdle
    /\ ImgIdle
    /\ ChatIdle
    /\ LateIdle
    /\ reg_name \in Names
    /\ reg_type \in {"chat", "embed"}
    /\ registry \in CompleteRegistries
    /\ resolved = NoResolved
    /\ resolved_util = NoResolved
    /\ lock = 0
    /\ refreshers = <<>>
    /\ observed = {}
    /\ qpc = "start"

\* one resolution of reg_name, by the registry and by utils
ResolveModelName ==
    /\ qpc = "start"
    /\ resolved' = ModelRegistry_resolve_model_name(registry, reg_name,
                                                     reg_type)
    /\ resolved_util' = resolve_model_name(reg_name, DefaultKey(reg_type),
                                           registry.aliases)
    /\ qpc' = "resolved"
    /\ UNCHANGED <<reg_name, reg_type, registry, lock, refreshers, observed>>
    /\ UNCHANGED NotReg

SpecResolve == InitResolve /\ [][ResolveModelName]_vars

\* no candidate of the name is an alias key or an internal id
NoCandidateMatches(reg, name) ==
    /\ name \notin reg.internal_to_entry
    /\ \A k \in 1..4 : Lookup(reg.aliases, Candidates(name)[k]).raised

DefaultId(reg, type) == Lookup(reg.aliases, DefaultKey(type)).id

Variants(t) ==
    {t} \cup (IF t = "argo" THEN {"ARGO"} ELSE {})
        \cup (IF t = "x" THEN {"X"} ELSE {})
        \cup (IF t = ":" THEN {"/"} ELSE {})

\* the spellings of an entry: its alias key with ":" or "/" in any case,
\* the bare name without the family, and its internal id
Spellings(e) ==
    {t \in Names : /\ Len(t) = Len(e.alias_key)
                   /\ \A i \in 1..Len(t) : t[i] \in Variants(e.alias_key[i])}
       \cup {SubSeq(e.alias_key, 3, Len(e.alias_key)), e.internal_id}

\* C16: all spellings of one alias resolve to the same internal id: for a
\* registered alias key argo:X with internal id I, the names argo:X, argo/X,
\* their upper-case and mixed-case forms, the bare name X and I itself all
\* resolve to I.
SpellingsResolveAlike ==
    qpc = "resolved" =>
       \A e \in registry.aliases :
          reg_name \in Spellings(e) => resolved = Resolved(e.internal_id)

BareNameResolved ==
    /\ qpc = "resolved"
    /\ reg_name = <<"y">>
    /\ EntryY \in registry.aliases
    /\ resolved = Resolved(<<"yi">>)

----------------------------------------------------------------------------
\* ---- refresh_models: POST /v1/models/refresh, concurrent with reads ----
MaxRefreshers == 2

Refreshers == 1..MaxRefreshers

\* ModelRegistry.get_model_stats()
get_model_stats(reg) ==
    [unique_models |-> Cardinality(reg.internal_to_entry),
     total_aliases |-> Cardinality(reg.aliases),
     unique_chat_models |->
        Cardinality({e.internal_id : e \in {a \in reg.aliases :
                                               a.type = "chat"}}),
     unique_embed_models |->
        Cardinality({e.internal_id : e \in {a \in reg.aliases :
                                               a.type = "embed"}})]

NoStats == get_model_stats(NoRegistry)

\* a refresh_models request: where it is, the statistics it read before
\* the refresh, and its response
Refresher(pc, old_stats, status, new_stats) ==
    [pc |-> pc, old_stats |-> old_stats, status |-> status,
     new_stats |-> new_stats]

\* a swap that replaces the alias map and leaves the map of internal ids
swap_aliases_only(old, new) == [old EXCEPT !.aliases = new.aliases]

\* refresh_availability: the new registry replaces the previous one
swap_registry(old, new) == new

\* the names that reads resolve while refreshes run
ReadNames == {<<"argo", ":", "y">>, <<"y">>, <<"zz">>}

InitRefresh ==
    /\ DecIdle
    /\ LeakIdle
    /\ ContentIdle
    /\ GemIdle
    /\ RespIdle
    /\ IrIdle
    /\ ImgIdle
    /\ ChatIdle
    /\ LateIdle
    /\ reg_name = <<>>
    /\ reg_type = ""
    /\ registry \in CompleteRegistries
    /\ resolved = NoResolved
    /\ resolved_util = NoResolved
    /\ lock = 0
    /\ refreshers = [p \in Refreshers |-> Refresher("idle", NoStats, 0, NoStats)]
    /\ observed = {}
    /\ qpc = "serving"

\* refresh_models up to the await: old_stats is read, refresh_availability
\* is entered
RefreshModels(p) ==
    /\ qpc = "serving"
    /\ refreshers[p].pc = "idle"
    /\ refreshers' = [refreshers EXCEPT
                         ![p] = Refresher("waiting",
                                          get_model_stats(registry), 0,
                                          NoStats)]
    /\ UNCHANGED <<reg_name, reg_type, registry, resolved, resolved_util,
                   lock, observed, qpc>>
    /\ UNCHANGED NotReg

\* refresh_availability: one refresh at a time goes on to the upstream
AcquireRefresh(p) ==
    /\ qpc = "serving"
    /\ refreshers[p].pc = "waiting"
    /\ lock = 0
    /\ lock' = p
    /\ refreshers' = [refreshers EXCEPT ![p].pc = "fetching"]
    /\ UNCHANGED <<reg_name, reg_type, registry, resolved, resolved_util,
                   observed, qpc>>
    /\ UNCHANGED NotReg

\* the upstream catalogue arrived: the new registry is built and swapped in
RefreshSucceeds(p) ==
    /\ qpc = "serving"
    /\ refreshers[p].pc = "fetching"
    /\ \E c \in Catalogues :
          registry' = swap_registry(registry, RegistryOf(c))
    /\ lock' = 0
    /\ refreshers' = [refreshers EXCEPT ![p].pc = "refreshed"]
    /\ UNCHANGED <<reg_name, reg_type, resolved, resolved_util, observed,
                   qpc>>
    /\ UNCHANGED NotReg

\* the fetch failed: the previous registry is kept, the exception goes to
\* refresh_models
RefreshFails(p) ==
    /\ qpc = "serving"
    /\ refreshers[p].pc = "fetching"
    /\ lock' = 0
    /\ refreshers' = [refreshers EXCEPT ![p].pc = "failed"]
    /\ UNCHANGED <<reg_name, reg_type, registry, resolved, resolved_util,
                   observed, qpc>>
    /\ UNCHANGED NotReg

\* refresh_models after the await: status 500 from the except clause, or
\* new_stats is read and status 200 is returned
RefreshRespond(p) ==
    /\ qpc = "serving"
    /\ refreshers[p].pc \in {"refreshed", "failed"}
    /\ refreshers' =
          [refreshers EXCEPT
              ![p] = IF refreshers[p].pc = "failed"
                     THEN Refresher("done", @.old_stats, 500, NoStats)
                     ELSE Refresher("done", @.old_stats, 200,
                                    get_model_stats(registry))]
    /\ UNCHANGED <<reg_name, reg_type, registry, resolved, resolved_util,
                   lock, observed, qpc>>
    /\ UNCHANGED NotReg

\* the response is written; the next refresh_models request arrives
RefreshAgain(p) ==
    /\ qpc = "serving"
    /\ refreshers[p].pc = "done"
    /\ refreshers' = [refreshers EXCEPT
                         ![p] = Refresher("idle", NoStats, 0, NoStats)]
    /\ UNCHANGED <<reg_name, reg_type, registry, resolved, resolved_util,
                   lock, observed, qpc>>
    /\ UNCHANGED NotReg

\* a chat or embedding request resolves its model name
ResolveDuringRefresh ==
    /\ qpc = "serving"
    /\ \E n \in ReadNames, t \in {"chat", "embed"} :
          /\ reg_name' = n
          /\ reg_type' = t
          /\ resolved' = ModelRegistry_resolve_model_name(registry, n, t)
    /\ observed' = observed \cup {registry}
    /\ UNCHANGED <<registry, resolved_util, lock, refreshers, qpc>>
    /\ UNCHANGED NotReg

\* get_models: GET /v1/models lists the registry
GetModels ==
    /\ qpc = "serving"
    /\ observed' = observed \cup {registry}
    /\ UNCHANGED <<reg_name, reg_type, registry, resolved, resolved_util,
                   lock, refreshers, qpc>>
    /\ UNCHANGED NotReg

NextRefresh ==
    \/ \E p \in Refreshers : RefreshModels(p)
    \/ \E p \in Refreshers : AcquireRefresh(p)
    \/ \E p \in Refreshers : RefreshSucceeds(p)
    \/ \E p \in Refreshers : RefreshFails(p)
    \/ \E p \in Refreshers : RefreshRespond(p)
    \/ \E p \in Refreshers : RefreshAgain(p)
    \/ ResolveDuringRefresh
    \/ GetModels

SpecRefresh == InitRefresh /\ [][NextRefresh]_vars

\* C17: under any interleaving of refresh requests with model resolutions
\* and model listings, at most one refresh at a time is between entering
\* and leaving the fetch, and every read sees a complete registry, the one
\* built from one catalogue, never the alias map of one catalogue with the
\* internal ids of another.
RefreshSerialisedAndAtomic ==
    qpc = "serving" =>
       /\ Cardinality({p \in Refreshers : refreshers[p].pc = "fetching"}) <= 1
       /\ observed \subseteq CompleteRegistries
       /\ registry \in CompleteRegistries

ReadsSawOldAndNew ==
    /\ qpc = "serving"
    /\ Cardinality(observed) = 2
    /\ \E p, q \in Refreshers :
          /\ refreshers[p].pc = "fetching"
          /\ refreshers[q].pc = "waiting"

----------------------------------------------------------------------------
(***************************************************************************)
(* Part 7.  The chat endpoint.  process_chat_with_llmir exists twice, in   *)
(* llmir/processing.py and in types/llmir_impl.py, each with its own       *)
(* _send_llmir_non_streaming_request; endpoints/native_anthropic.py has    *)
(* _handle_non_streaming_passthrough.  A request body is known by its      *)
(* kind: text that is not JSON, the empty object, a JSON array, string,    *)
(* number or null, or an object with at least one key.                     *)
(***************************************************************************)
ChatHandlers == {"processing", "llmir_impl"}

Senders == ChatHandlers \cup {"native_anthropic"}

NonObjectBodies == {"array", "string", "number", "null"}

FatalBodies == {"invalid_json", "empty_object"} \cup NonObjectBodies

BodyKinds == FatalBodies \cup {"object"}

ChatRequest(handler, body) == [handler |-> handler, body |-> body]

\* the exception that leaves the try block of process_chat_with_llmir:
\* request.json() raises json.JSONDecodeError, a ValueError; data.get
\* raises AttributeError on a list, str, int, float or None; an empty dict
\* raises the ValueError of "if not data"; for any other dict
\* process_chat_images is called with the three arguments (session, data,
\* config) while it takes two, a TypeError
RaisedInHandler(body) ==
    IF body = "invalid_json" THEN "ValueError"
    ELSE IF body \in NonObjectBodies THEN "AttributeError"
    ELSE IF body = "empty_object" THEN "ValueError"
    ELSE "TypeError"

\* the except clauses of process_chat_with_llmir, the same in both files
process_chat_with_llmir(req) ==
    LET err == RaisedInHandler(req.body) IN
    IF err = "ValueError" THEN ErrorResponse("", 400)
    ELSE IF err = "ClientError" THEN ErrorResponse("", 503)
    ELSE ErrorResponse("", 500)

ChatStatuses == {200, 429, 500}

\* an upstream JSON object with none of the keys response, messages,
\* tool_calls
MissingResponseField == ResponseField("missing", TRUE, "", TRUE, <<>>)

ChatResponseFields == ResponseFields \cup {MissingResponseField}

ChatUpstreams ==
    {[outcome |-> "json", status |-> st, convert_to_openai |-> cv,
      response |-> r] :
         st \in ChatStatuses, cv \in BOOLEAN, r \in ChatResponseFields}
      \cup {[outcome |-> o, status |-> st, convert_to_openai |-> cv,
             response |-> NoResponseField] :
               o \in {"invalid_json", "client_response_error"},
               st \in ChatStatuses, cv \in BOOLEAN}

\* llmir/processing.py: _send_llmir_non_streaming_request.  from_provider
\* takes an object without "response" for a message, which has no choices;
\* p_response_to_ir always returns one choice
processing_send_llmir_non_streaming_request(up) ==
    LET ir == p_response_to_ir(up.response)
        has_choices == up.response.kind # "missing"
    IN
    IF up.outcome = "client_response_error"
    THEN ErrorResponse("upstream_api_error", up.status)
    ELSE IF up.outcome = "invalid_json"
    THEN ErrorResponse("upstream_invalid_json", 502)
    ELSE IF ~up.convert_to_openai
    THEN [NoHttp EXCEPT !.kind = "passthrough", !.status = up.status]
    ELSE IF ~has_choices
    THEN ErrorResponse("upstream_no_response", 502)
    ELSE [kind |-> "completion", status |-> up.status, type |-> "",
          contentNone |-> ir.content = <<>>,
          content |-> IF ir.content = <<>> THEN "" ELSE ir.content[1].text,
          toolCallsNone |-> ~ir.hasToolCalls,
          tool_calls |-> IF ir.hasToolCalls THEN up.response.tool_calls
                         ELSE <<>>,
          finish_reason |-> ir.finish_reason.reason]

\* endpoints/native_anthropic.py: _handle_non_streaming_passthrough
handle_non_streaming_passthrough(up) ==
    IF up.outcome = "client_response_error"
    THEN ErrorResponse("upstream_api_error", up.status)
    ELSE IF up.outcome = "invalid_json"
    THEN [NoHttp EXCEPT !.kind = "passthrough_text", !.status = up.status]
    ELSE [NoHttp EXCEPT !.kind = "passthrough", !.status = up.status]

InitChatRequest ==
    /\ DecIdle
    /\ LeakIdle
    /\ ContentIdle
    /\ GemIdle
    /\ RespIdle
    /\ IrIdle
    /\ ImgIdle
    /\ RegIdle
    /\ LateIdle
    /\ chat_request \in {ChatRequest(h, b) : h \in ChatHandlers,
                                             b \in BodyKinds}
    /\ chat_upstream = NoUpstream
    /\ chat_response = NoHttp
    /\ hpc = "start"

\* the request was valid and was sent: the upstream has answered
InitChatUpstream ==
    /\ DecIdle
    /\ LeakIdle
    /\ ContentIdle
    /\ GemIdle
    /\ RespIdle
    /\ IrIdle
    /\ ImgIdle
    /\ RegIdle
    /\ LateIdle
    /\ chat_request \in {ChatRequest(h, "object") : h \in Senders}
    /\ chat_upstream \in ChatUpstreams
    /\ chat_response = NoHttp
    /\ hpc = "upstream"

\* process_chat_with_llmir on a request body
ProcessChat ==
    /\ hpc = "start"
    /\ chat_response' = process_chat_with_llmir(chat_request)
    /\ hpc' = "answered"
    /\ UNCHANGED <<chat_request, chat_upstream>>
    /\ UNCHANGED NotChat

\* types/llmir_impl.py: _send_llmir_non_streaming_request
SendLlmirImpl ==
    /\ hpc = "upstream"
    /\ chat_request.handler = "llmir_impl"
    /\ chat_response' = send_llmir_non_streaming_request(chat_upstream)
    /\ hpc' = "answered"
    /\ UNCHANGED <<chat_request, chat_upstream>>
    /\ UNCHANGED NotChat

\* llmir/processing.py: _send_llmir_non_streaming_request
SendProcessing ==
    /\ hpc = "upstream"
    /\ chat_request.handler = "processing"
    /\ chat_response' =
          processing_send_llmir_non_streaming_request(chat_upstream)
    /\ hpc' = "answered"
    /\ UNCHANGED <<chat_request, chat_upstream>>
    /\ UNCHANGED NotChat

\* endpoints/native_anthropic.py: _handle_non_streaming_passthrough
HandlePassthrough ==
    /\ hpc = "upstream"
    /\ chat_request.handler = "native_anthropic"
    /\ chat_response' = handle_non_streaming_passthrough(chat_upstream)
    /\ hpc' = "answered"
    /\ UNCHANGED <<chat_request, chat_upstream>>
    /\ UNCHANGED NotChat

InitChat == InitChatRequest \/ InitChatUpstream

NextChat ==
    \/ ProcessChat
    \/ SendLlmirImpl
    \/ SendProcessing
    \/ HandlePassthrough

SpecChat == InitChat /\ [][NextChat]_vars

\* C18: every fatal input to the chat endpoint is answered with status 400
\* and a JSON error body, never 500: a body that is not JSON, the empty
\* object, and a JSON array, string, number or null.
FatalInputAnswered400 ==
    (hpc = "answered" /\ chat_upstream = NoUpstream
       /\ chat_request.body \in FatalBodies) =>
          /\ chat_response.kind = "error"
          /\ chat_response.status = 400

\* C19: when the upstream answers a valid request with a status outside
\* 2xx, the client gets status 502 with an error envelope of type
\* upstream_api_error, and never a passthrough or a completion carrying the
\* upstream status.
UpstreamErrorAnswered502 ==
    (hpc = "answered" /\ chat_upstream # NoUpstream
       /\ chat_upstream.status \notin 200..299) =>
          /\ chat_response.kind = "error"
          /\ chat_response.status = 502
          /\ chat_response.type = "upstream_api_error"

\* an answer with neither content nor tool calls: the response missing or
\* null, the empty string, or an object whose content is null or empty and
\* whose tool_calls are absent or empty
EmptyAnswer(r) ==
    \/ r.kind \in {"missing", "none"}
    \/ r.kind = "str" /\ r.text = ""
    \/ /\ r.kind = "dict"
       /\ r.contentNone \/ r.text = ""
       /\ r.toolCallsNone \/ r.tool_calls = <<>>

\* C20: a 2xx upstream answer with neither content nor tool calls, on the
\* converting path, is answered with status 502 and type
\* upstream_no_response, never with a 200 completion of empty content.
EmptyAnswerIs502 ==
    (hpc = "answered" /\ chat_request.handler \in ChatHandlers
       /\ chat_upstream.outcome = "json"
       /\ chat_upstream.status \in 200..299
       /\ chat_upstream.convert_to_openai
       /\ EmptyAnswer(chat_upstream.response)) =>
          /\ chat_response.kind = "error"
          /\ chat_response.status = 502
          /\ chat_response.type = "upstream_no_response"

----------------------------------------------------------------------------
(***************************************************************************)
(* Part 8a.  Streaming passthrough: endpoints/native_anthropic.py          *)
(* (proxy_native_anthropic_request, _handle_streaming_passthrough) and     *)
(* endpoints/dev_proxy.py (dev_proxy_handler, _handle_streaming).          *)
(***************************************************************************)

\* bound: number of events the upstream body delivers
MaxEvents == 3

StreamHandlers == {"native_anthropic", "dev_proxy"}

\* what upstream_resp.content.iter_any() and response.write do in one turn
\* of the loop: a chunk that is written, an empty chunk, an exception raised
\* by the read, or ConnectionResetError raised by the write to the client
StreamErrors ==
    {"ClientPayloadError", "ClientResponseError", "ConnectionResetError"}

StreamEvents == {"chunk", "empty"} \cup StreamErrors

\* the exceptions that are aiohttp.ClientError
ClientErrors == {"ClientConnectorError", "ClientPayloadError",
                 "ClientResponseError"}

\* session.post / session.request: the status of the upstream response, 0
\* when the connection failed with ClientConnectorError
UpstreamStatuses == {0, 200, 500}

NoAnswer == [kind |-> "none", status |-> 0]

JsonResponse(status) == [kind |-> "json", status |-> status]

StreamResponse(status) == [kind |-> "stream", status |-> status]

\* the except clauses of proxy_native_anthropic_request
native_outer_except(err) ==
    IF err \in ClientErrors THEN JsonResponse(503) ELSE JsonResponse(500)

\* the except clause of _handle_streaming_passthrough, then those of its
\* caller: what the handler returns when err is raised inside it; status is
\* err.status, the status of the response the error was raised for
native_except(err, status) ==
    IF err = "ClientResponseError" THEN JsonResponse(status)
    ELSE native_outer_except(err)

\* the except clauses of dev_proxy_handler; _handle_streaming has none
dev_except(err) ==
    IF err \in ClientErrors THEN JsonResponse(502) ELSE JsonResponse(500)

handler_except(handler, err, status) ==
    IF handler = "native_anthropic" THEN native_except(err, status)
    ELSE dev_except(err)

Passthrough(handler, status, events) ==
    [pc |-> "start", handler |-> handler, upstream_status |-> status,
     events |-> events, idx |-> 0, prepared |-> FALSE, written |-> 0,
     failed |-> FALSE, returned |-> NoAnswer]

InitStreaming ==
    /\ DecIdle
    /\ LeakIdle
    /\ ContentIdle
    /\ GemIdle
    /\ RespIdle
    /\ IrIdle
    /\ ImgIdle
    /\ RegIdle
    /\ ChatIdle
    /\ passthrough \in
          {Passthrough(h, st, ev) :
              h \in StreamHandlers, st \in UpstreamStatuses,
              ev \in UNION {[1..n -> StreamEvents] : n \in 0..MaxEvents}}
    /\ sse = Unused
    /\ field_conv = Unused
    /\ validation = Unused
    /\ http_session = Unused
    /\ second_pass = Unused
    /\ sequential = Unused

NotPassthrough ==
    <<sse, field_conv, validation, http_session, second_pass, sequential>>

\* the request to the upstream fails: nothing was sent to the client yet
ConnectFails ==
    /\ passthrough.pc = "start"
    /\ passthrough.upstream_status = 0
    /\ passthrough' =
          [passthrough EXCEPT
              !.pc = "returned",
              !.returned = handler_except(passthrough.handler,
                                          "ClientConnectorError", 0)]
    /\ UNCHANGED NotPassthrough
    /\ UNCHANGED NotLate

\* _handle_streaming_passthrough: an upstream status other than 200 is
\* answered with a JSON body before any stream is started
RejectUpstream ==
    /\ passthrough.pc = "start"
    /\ passthrough.handler = "native_anthropic"
    /\ passthrough.upstream_status \notin {0, 200}
    /\ passthrough' =
          [passthrough EXCEPT
              !.pc = "returned",
              !.returned = JsonResponse(passthrough.upstream_status)]
    /\ UNCHANGED NotPassthrough
    /\ UNCHANGED NotLate

\* web.StreamResponse(status=upstream_resp.status), response.prepare(request):
\* the status line and the headers are on the wire
PrepareStream ==
    /\ passthrough.pc = "start"
    /\ passthrough.upstream_status # 0
    /\ passthrough.handler = "native_anthropic"
          => passthrough.upstream_status = 200
    /\ passthrough' = [passthrough EXCEPT !.pc = "streaming",
                                          !.prepared = TRUE]
    /\ UNCHANGED NotPassthrough
    /\ UNCHANGED NotLate

\* one turn of the async for loop that delivers a chunk: written unless empty
RelayChunk ==
    /\ passthrough.pc = "streaming"
    /\ passthrough.idx < Len(passthrough.events)
    /\ passthrough.events[passthrough.idx + 1] \in {"chunk", "empty"}
    /\ passthrough' =
          [passthrough EXCEPT
              !.idx = @ + 1,
              !.written =
                  IF passthrough.events[passthrough.idx + 1] = "chunk"
                  THEN @ + 1 ELSE @]
    /\ UNCHANGED NotPassthrough
    /\ UNCHANGED NotLate

\* one turn of the loop in which the read or the write raises: the
\* exception leaves the loop and an except clause builds what the handler
\* returns
StreamFails ==
    /\ passthrough.pc = "streaming"
    /\ passthrough.idx < Len(passthrough.events)
    /\ passthrough.events[passthrough.idx + 1] \in StreamErrors
    /\ passthrough' =
          [passthrough EXCEPT
              !.pc = "returned",
              !.idx = @ + 1,
              !.failed = TRUE,
              !.returned =
                  handler_except(passthrough.handler,
                                 passthrough.events[passthrough.idx + 1],
                                 passthrough.upstream_status)]
    /\ UNCHANGED NotPassthrough
    /\ UNCHANGED NotLate

\* the upstream body ended: write_eof, the stream response is returned
WriteEof ==
    /\ passthrough.pc = "streaming"
    /\ passthrough.idx = Len(passthrough.events)
    /\ passthrough' =
          [passthrough EXCEPT
              !.pc = "returned",
              !.returned = StreamResponse(passthrough.upstream_status)]
    /\ UNCHANGED NotPassthrough
    /\ UNCHANGED NotLate

NextStreaming ==
    \/ ConnectFails
    \/ RejectUpstream
    \/ PrepareStream
    \/ RelayChunk
    \/ StreamFails
    \/ WriteEof

SpecStreaming == InitStreaming /\ [][NextStreaming]_vars

\* C21: once the streaming response has been prepared, an error while
\* reading the upstream or writing to the client only truncates the stream:
\* the handler does not return a second response with a JSON error body.
StartedStreamOnlyTruncated ==
    (passthrough.pc = "returned" /\ passthrough.prepared
       /\ passthrough.failed) =>
          passthrough.returned.kind # "json"

----------------------------------------------------------------------------
(***************************************************************************)
(* Part 8b.  utils/transports.py: send_off_sse and pseudo_chunk_generator. *)
(* Texts and byte strings are sequences of tokens: single characters, the  *)
(* line feed "\n" and the field prefix "data: ".                           *)
(***************************************************************************)

\* bounds: characters of a JSON string value, tokens of a bytes payload,
\* characters of a text to slice, and the largest chunk size
MaxValueLen == 2
MaxPayloadLen == 4
MaxTextLen == 4
MaxChunkSize == 3

LF == "\n"

DataPrefix == "data: "

\* the characters of a string value: a letter, a line feed, a double quote
\* and a character outside ASCII
ValueChars == {"a", LF, "\"", "é"}

\* a mutation of json_escape_char: characters are written as they are
json_escape_char_raw(c) == <<c>>

\* json.dumps on one character of a string (ensure_ascii is on)
json_escape_char(c) ==
    CASE c = LF -> <<"\\", "n">>
      [] c = "\"" -> <<"\\", "\"">>
      [] c = "é" -> <<"\\", "u00e9">>
      [] OTHER -> <<c>>

RECURSIVE json_escape(_)
json_escape(str) ==
    IF str = <<>> THEN <<>>
    ELSE json_escape_char(Head(str)) \o json_escape(Tail(str))

\* json.dumps({"content": value})
json_dumps(d) ==
    <<"{", "\"", "content", "\"", ": ", "\"">> \o json_escape(d.content)
        \o <<"\"", "}">>

DictPayload(value) == [type |-> "dict", content |-> value, bytes |-> <<>>]

BytesPayload(b) == [type |-> "bytes", content |-> <<>>, bytes |-> b]

SsePayloads ==
    {DictPayload(v) :
        v \in UNION {[1..n -> ValueChars] : n \in 0..MaxValueLen}}
      \cup {BytesPayload(b) :
              b \in UNION {[1..n -> {DataPrefix, "a", LF}] :
                              n \in 0..MaxPayloadLen}}

\* send_off_sse: the bytes handed to response.write
send_off_sse(data) ==
    IF data.type = "bytes" THEN data.bytes
    ELSE <<DataPrefix>> \o json_dumps(data) \o <<LF, LF>>

\* the payload as the frame would carry it
PayloadText(data) ==
    IF data.type = "bytes" THEN data.bytes ELSE json_dumps(data)

\* a reader of the event stream format: the lines of a byte string, the
\* rest after the last line feed included
RECURSIVE SseLines(_, _)
SseLines(bytes, line) ==
    IF bytes = <<>> THEN <<line>>
    ELSE IF Head(bytes) = LF THEN <<line>> \o SseLines(Tail(bytes), <<>>)
    ELSE SseLines(Tail(bytes), Append(line, Head(bytes)))

\* the events a reader dispatches: a data line adds to the event, any other
\* line is ignored, a blank line dispatches the event if it has data lines;
\* what follows the last blank line is never dispatched
RECURSIVE SseDispatch(_, _, _)
SseDispatch(lines, buffer, has_data) ==
    IF Len(lines) <= 1 THEN <<>>
    ELSE IF Head(lines) = <<>>
         THEN (IF has_data THEN <<buffer>> ELSE <<>>)
                 \o SseDispatch(Tail(lines), <<>>, FALSE)
    ELSE IF Head(lines)[1] = DataPrefix
         THEN SseDispatch(Tail(lines),
                          IF has_data
                          THEN buffer \o <<LF>> \o Tail(Head(lines))
                          ELSE Tail(Head(lines)),
                          TRUE)
    ELSE SseDispatch(Tail(lines), buffer, has_data)

SseEvents(bytes) == SseDispatch(SseLines(bytes, <<>>), <<>>, FALSE)

\* a mutation of chunk_at: the slice ends one character early
chunk_at_short(complete_text, i, chunk_size) ==
    SubSeq(complete_text, i + 1,
           IF i + chunk_size - 1 < Len(complete_text) THEN i + chunk_size - 1
           ELSE Len(complete_text))

\* pseudo_chunk_generator: complete_text[i:i + chunk_size], i counted from 0
chunk_at(complete_text, i, chunk_size) ==
    SubSeq(complete_text, i + 1,
           IF i + chunk_size < Len(complete_text) THEN i + chunk_size
           ELSE Len(complete_text))

SendCall(data) ==
    [pc |-> "send", op |-> "send_off_sse", data |-> data, written |-> <<>>,
     is_none |-> FALSE, complete_text |-> <<>>, chunk_size |-> 0, i |-> 0,
     chunks |-> <<>>]

ChunkCall(is_none, complete_text, chunk_size) ==
    [pc |-> "chunk", op |-> "pseudo_chunk_generator",
     data |-> BytesPayload(<<>>), written |-> <<>>, is_none |-> is_none,
     complete_text |-> complete_text, chunk_size |-> chunk_size, i |-> 0,
     chunks |-> <<>>]

ChunkTexts == UNION {[1..n -> {"a", "b"}] : n \in 0..MaxTextLen}

InitTransports ==
    /\ DecIdle
    /\ LeakIdle
    /\ ContentIdle
    /\ GemIdle
    /\ RespIdle
    /\ IrIdle
    /\ ImgIdle
    /\ RegIdle
    /\ ChatIdle
    /\ passthrough = Unused
    /\ sse \in {SendCall(d) : d \in SsePayloads}
                 \cup {ChunkCall(FALSE, t, n) :
                          t \in ChunkTexts, n \in 1..MaxChunkSize}
                 \cup {ChunkCall(TRUE, <<>>, n) : n \in 1..MaxChunkSize}
    /\ field_conv = Unused
    /\ validation = Unused
    /\ http_session = Unused
    /\ second_pass = Unused
    /\ sequential = Unused

NotSse ==
    <<passthrough, field_conv, validation, http_session, second_pass,
      sequential>>

\* send_off_sse: the whole call
SendOffSse ==
    /\ sse.pc = "send"
    /\ sse' = [sse EXCEPT !.pc = "written",
                          !.written = send_off_sse(sse.data)]
    /\ UNCHANGED NotSse
    /\ UNCHANGED NotLate

\* pseudo_chunk_generator: one turn of the for loop, up to its yield
YieldChunk ==
    /\ sse.pc = "chunk"
    /\ ~sse.is_none
    /\ sse.i < Len(sse.complete_text)
    /\ sse' = [sse EXCEPT
                  !.chunks = Append(@, chunk_at(sse.complete_text, sse.i,
                                                sse.chunk_size)),
                  !.i = @ + sse.chunk_size]
    /\ UNCHANGED NotSse
    /\ UNCHANGED NotLate

\* pseudo_chunk_generator: the early return on None, or the range is used up
ChunksExhausted ==
    /\ sse.pc = "chunk"
    /\ sse.is_none \/ sse.i >= Len(sse.complete_text)
    /\ sse' = [sse EXCEPT !.pc = "exhausted"]
    /\ UNCHANGED NotSse
    /\ UNCHANGED NotLate

NextTransports == SendOffSse \/ YieldChunk \/ ChunksExhausted

SpecTransports == InitTransports /\ [][NextTransports]_vars

\* C22 as stated: every payload, a dictionary or bytes, is written as
\* exactly one frame, "data: <payload>" followed by a blank line: a reader
\* of the stream gets one event whose data is the payload.
EveryPayloadOneFrame ==
    sse.pc = "written" =>
        /\ sse.written = <<DataPrefix>> \o PayloadText(sse.data) \o <<LF, LF>>
        /\ SseEvents(sse.written) = <<PayloadText(sse.data)>>

\* C22: a dictionary is written as exactly one frame: the stream
\* starts with "data: ", ends with a blank line, and a reader gets exactly
\* one event whose data is the JSON text; bytes are written unchanged, as
\* the caller formatted them.
DictOneFrameBytesVerbatim ==
    sse.pc = "written" =>
        IF sse.data.type = "dict"
        THEN /\ Head(sse.written) = DataPrefix
             /\ SubSeq(sse.written, Len(sse.written) - 1, Len(sse.written))
                   = <<LF, LF>>
             /\ SseEvents(sse.written) = <<json_dumps(sse.data)>>
        ELSE sse.written = sse.data.bytes

\* a dictionary whose value holds a line feed was written
DictWithLineFeedWritten ==
    /\ sse.pc = "written"
    /\ sse.data.type = "dict"
    /\ \E k \in 1..Len(sse.data.content) : sse.data.content[k] = LF

RECURSIVE Concat(_)
Concat(chunks) ==
    IF chunks = <<>> THEN <<>> ELSE Head(chunks) \o Concat(Tail(chunks))

\* C23: pseudo_chunk_generator slices without loss, for every text and
\* every chunk_size of at least 1: the chunks concatenated are the text,
\* every chunk is non-empty, all but the last have exactly chunk_size
\* characters and the last has between 1 and chunk_size; an empty text or
\* None yields no chunk.
ChunksSliceWithoutLoss ==
    sse.pc = "exhausted" =>
        /\ Concat(sse.chunks) = sse.complete_text
        /\ \A k \in 1..Len(sse.chunks) :
              /\ Len(sse.chunks[k]) >= 1
              /\ k < Len(sse.chunks)
                    => Len(sse.chunks[k]) = sse.chunk_size
              /\ Len(sse.chunks[k]) <= sse.chunk_size
        /\ (sse.is_none \/ sse.complete_text = <<>>) => sse.chunks = <<>>

\* a text was cut into several chunks of which the last is shorter
LastChunkShorter ==
    /\ sse.pc = "exhausted"
    /\ Len(sse.chunks) >= 2
    /\ Len(sse.chunks[Len(sse.chunks)]) < sse.chunk_size

----------------------------------------------------------------------------
(***************************************************************************)
(* Part 8c.  The top-level fields of a request through llmir/converter.py  *)
(* (ArgoConverter.from_provider, to_provider) and llmir/complex_ops.py     *)
(* (p_request_to_ir, ir_request_to_p).                                     *)
(***************************************************************************)

\* bound: top-level fields of a request besides messages and prompt
MaxFields == 2

\* the fields both conversions copy
ScalarFields ==
    {"model", "max_tokens", "temperature", "top_p", "stream", "stop",
     "presence_penalty", "frequency_penalty", "logit_bias", "user", "seed",
     "response_format", "n"}

\* fields of the chat completions API that are in neither list
OtherFields == {"max_completion_tokens", "metadata"}

FieldValues == {"v", "w"}

NoFields == [k \in {} |-> "v"]

FieldMaps ==
    UNION {[K -> FieldValues] :
              K \in {S \in SUBSET (ScalarFields \cup OtherFields) :
                        Cardinality(S) <= MaxFields}}

TextPartOf(str) == [type |-> "text", text |-> str]

ConvMessage(role, parts) == [role |-> role, parts |-> parts]

\* what a conversion returned: an IR request or wire request (level
\* "request"), a single IR message (level "message"), or an exception
ConvData(level, messages, fields) ==
    [level |-> level, messages |-> messages, fields |-> fields]

NoConvData == ConvData("none", <<>>, NoFields)

\* a request body: shape says which of messages and prompt it carries, the
\* prompt being a string or an array of strings
RequestShapes == {"messages", "prompt_str", "prompt_list", "neither"}

ConvRequest(shape, fields) ==
    [shape |-> shape,
     messages |-> IF shape = "messages"
                  THEN <<ConvMessage("user", <<"hi">>)>> ELSE <<>>,
     prompt |-> CASE shape = "prompt_str" -> <<"hello">>
                  [] shape = "prompt_list" -> <<"a", "b">>
                  [] OTHER -> <<>>,
     fields |-> fields]

\* the loop over the field list, the same in both directions
copy_fields(fields) ==
    [k \in DOMAIN fields \cap ScalarFields |-> fields[k]]

\* ArgoComplexOps.p_message_to_ir on a message whose content is a string
p_text_message_to_ir(m) ==
    ConvMessage(m.role, <<TextPartOf(m.parts[1])>>)

\* ArgoComplexOps.p_request_to_ir on a request body
p_request_fields_to_ir(data) ==
    ConvData("request",
             [i \in 1..Len(data.messages) |->
                 p_text_message_to_ir(data.messages[i])],
             copy_fields(data.fields))

\* ArgoConverter.from_provider on a request body: without the key messages
\* (and without the key response) the body is taken for a single message,
\* and p_message_to_ir finds neither role nor content in it
from_provider(data) ==
    IF data.shape = "messages" THEN p_request_fields_to_ir(data)
    ELSE ConvData("message", <<ConvMessage("user", <<>>)>>, NoFields)

\* ArgoComplexOps.ir_message_to_p on a message of text parts: one text part
\* becomes a bare string
ir_text_message_to_p(m) ==
    ConvMessage(m.role, [i \in 1..Len(m.parts) |-> m.parts[i].text])

\* ArgoConverter.to_provider: an IR request goes to ir_request_to_p; a
\* single IR message is wrapped as the message list, the loop then calls
\* ir_message_to_p on its keys and AttributeError is raised
to_provider(ir) ==
    IF ir.level = "request"
    THEN ConvData("request",
                  [i \in 1..Len(ir.messages) |->
                      ir_text_message_to_p(ir.messages[i])],
                  copy_fields(ir.fields))
    ELSE ConvData("raised", <<>>, NoFields)

\* the warnings to_provider returns: those of the messages' parts, none for
\* text parts
to_provider_warnings(ir) == <<>>

FieldConv(entry, data) ==
    [pc |-> "start", entry |-> entry, data |-> data, ir |-> NoConvData,
     wire |-> NoConvData, warnings |-> <<>>]

InitFields ==
    /\ DecIdle
    /\ LeakIdle
    /\ ContentIdle
    /\ GemIdle
    /\ RespIdle
    /\ IrIdle
    /\ ImgIdle
    /\ RegIdle
    /\ ChatIdle
    /\ passthrough = Unused
    /\ sse = Unused
    /\ field_conv \in
          {FieldConv(e, ConvRequest(sh, f)) :
              e \in {"from_provider", "p_request_to_ir"},
              sh \in RequestShapes, f \in FieldMaps}
    /\ validation = Unused
    /\ http_session = Unused
    /\ second_pass = Unused
    /\ sequential = Unused

NotFieldConv ==
    <<passthrough, sse, validation, http_session, second_pass, sequential>>

\* the request body is converted by ArgoConverter.from_provider
FromProvider ==
    /\ field_conv.pc = "start"
    /\ field_conv.entry = "from_provider"
    /\ field_conv' = [field_conv EXCEPT !.pc = "ir",
                                        !.ir = from_provider(field_conv.data)]
    /\ UNCHANGED NotFieldConv
    /\ UNCHANGED NotLate

\* the request body is given to ArgoComplexOps.p_request_to_ir itself
PRequestFieldsToIr ==
    /\ field_conv.pc = "start"
    /\ field_conv.entry = "p_request_to_ir"
    /\ field_conv' =
          [field_conv EXCEPT !.pc = "ir",
                             !.ir = p_request_fields_to_ir(field_conv.data)]
    /\ UNCHANGED NotFieldConv
    /\ UNCHANGED NotLate

\* the IR data goes back to the wire format by ArgoConverter.to_provider
ToProvider ==
    /\ field_conv.pc = "ir"
    /\ field_conv' =
          [field_conv EXCEPT
              !.pc = "wire",
              !.wire = to_provider(field_conv.ir),
              !.warnings = to_provider_warnings(field_conv.ir)]
    /\ UNCHANGED NotFieldConv
    /\ UNCHANGED NotLate

NextFields == FromProvider \/ PRequestFieldsToIr \/ ToProvider

SpecFields == InitFields /\ [][NextFields]_vars

\* C24: the request conversion copies the listed scalar fields verbatim
\* and drops every other top-level field with a warning recorded: no field
\* is dropped silently or changed.
FieldsCopiedOrWarned ==
    (field_conv.pc = "wire" /\ field_conv.data.shape = "messages") =>
        \A k \in DOMAIN field_conv.data.fields :
            IF k \in ScalarFields
            THEN /\ k \in DOMAIN field_conv.ir.fields
                 /\ field_conv.ir.fields[k] = field_conv.data.fields[k]
                 /\ k \in DOMAIN field_conv.wire.fields
                 /\ field_conv.wire.fields[k] = field_conv.data.fields[k]
            ELSE /\ k \notin DOMAIN field_conv.wire.fields
                 /\ \E i \in 1..Len(field_conv.warnings) :
                       field_conv.warnings[i] = k

\* C25: a request that omits messages but carries a legacy prompt, a
\* string or an array of strings, is converted to an IR request whose
\* messages are a single user message with one text part holding the prompt.
LegacyPromptBecomesUserMessage ==
    (field_conv.pc \in {"ir", "wire"}
       /\ field_conv.data.shape \in {"prompt_str", "prompt_list"}) =>
          /\ field_conv.ir.level = "request"
          /\ Len(field_conv.ir.messages) = 1
          /\ field_conv.ir.messages[1].role = "user"
          /\ Len(field_conv.ir.messages[1].parts) = 1
          /\ field_conv.ir.messages[1].parts[1].type = "text"
          /\ field_conv.data.shape = "prompt_str" =>
                field_conv.ir.messages[1].parts[1].text
                   = field_conv.data.prompt[1]

----------------------------------------------------------------------------
(***************************************************************************)
(* Part 8d.  utils/transports.py: validate_api_async.                      *)
(***************************************************************************)

\* bound: the largest value of the argument attempts
MaxAttempts == 3

\* what one POST to the API ends in: status 200, another status, or an
\* exception of the client (timeout, connection refused)
PostOutcomes == {"200", "500", "ClientError"}

\* the outcomes the API would give to successive POSTs
OutcomeLists == [1..MaxAttempts + 1 -> PostOutcomes]

Validation(attempts, outcomes) ==
    [pc |-> "loop", attempts |-> attempts, outcomes |-> outcomes,
     attempt |-> 0, posts |-> 0, failures |-> 0, has_last_err |-> FALSE,
     result |-> "running"]

\* the number of turns of the for loop: range(attempts + 1)
tries(attempts) == attempts + 1

InitValidate ==
    /\ DecIdle
    /\ LeakIdle
    /\ ContentIdle
    /\ GemIdle
    /\ RespIdle
    /\ IrIdle
    /\ ImgIdle
    /\ RegIdle
    /\ ChatIdle
    /\ passthrough = Unused
    /\ sse = Unused
    /\ field_conv = Unused
    /\ validation \in {Validation(a, o) :
                          a \in 1..MaxAttempts, o \in OutcomeLists}
    /\ http_session = Unused
    /\ second_pass = Unused
    /\ sequential = Unused

NotValidation ==
    <<passthrough, sse, field_conv, http_session, second_pass, sequential>>

\* one turn of the loop whose POST is answered with 200: return True
PostSucceeds ==
    /\ validation.pc = "loop"
    /\ validation.attempt < tries(validation.attempts)
    /\ validation.outcomes[validation.posts + 1] = "200"
    /\ validation' = [validation EXCEPT !.pc = "returned",
                                        !.posts = @ + 1,
                                        !.result = "True"]
    /\ UNCHANGED NotValidation
    /\ UNCHANGED NotLate

\* one turn of the loop whose POST fails: another status raises ValueError
\* inside the try; the except clause keeps the error and sleeps before the
\* next turn
PostFails ==
    /\ validation.pc = "loop"
    /\ validation.attempt < tries(validation.attempts)
    /\ validation.outcomes[validation.posts + 1] # "200"
    /\ validation' = [validation EXCEPT !.posts = @ + 1,
                                        !.failures = @ + 1,
                                        !.has_last_err = TRUE,
                                        !.attempt = @ + 1]
    /\ UNCHANGED NotValidation
    /\ UNCHANGED NotLate

\* the loop is over: raise last_err, or ValueError when there is none
RaiseLastErr ==
    /\ validation.pc = "loop"
    /\ validation.attempt >= tries(validation.attempts)
    /\ validation' = [validation EXCEPT !.pc = "raised",
                                        !.result = "raised"]
    /\ UNCHANGED NotValidation
    /\ UNCHANGED NotLate

NextValidate == PostSucceeds \/ PostFails \/ RaiseLastErr

SpecValidate == InitValidate /\ [][NextValidate]_vars

\* C26: validate_api_async issues at most attempts POST requests in
\* total, the first one included; it returns True at the first answer 200
\* without a further request, and raises only after all attempts failed.
AtMostAttemptsPosts ==
    /\ validation.pc # "idle" => validation.posts <= validation.attempts
    /\ validation.pc = "returned" =>
          /\ validation.outcomes[validation.posts] = "200"
          /\ \A k \in 1..(validation.posts - 1) :
                validation.outcomes[k] # "200"
    /\ validation.pc = "raised" =>
          validation.failures = validation.attempts

----------------------------------------------------------------------------
(***************************************************************************)
(* Part 8e.  performance.py: OptimizedHTTPSession.create_session called    *)
(* by several coroutines of one event loop. A coroutine runs until its     *)
(* next await; the steps below are the stretches between awaits.           *)
(***************************************************************************)

\* bound: coroutines that call create_session
MaxCallers == 3

Callers == 1..MaxCallers

\* create_session shows a progress bar, and sleeps, above this pool size
ProgressThreshold == 100

\* connector.limit: a pool set small by ARGO_PROXY_MAX_CONNECTIONS, and the
\* smallest default of get_performance_config, max(200, cpu_count * 20)
PoolLimits == {100, 200}

\* self.session is 0 for None, else the number of the ClientSession
Caller == [pc |-> "idle", result |-> 0]

HttpSession(limit) ==
    [pc |-> "serving", limit |-> limit, session |-> 0, created |-> 0,
     closed |-> {}, callers |-> [p \in Callers |-> Caller]]

\* the test at the top of create_session
needs_session(s) == s.session = 0 \/ s.session \in s.closed

InitSession ==
    /\ DecIdle
    /\ LeakIdle
    /\ ContentIdle
    /\ GemIdle
    /\ RespIdle
    /\ IrIdle
    /\ ImgIdle
    /\ RegIdle
    /\ ChatIdle
    /\ passthrough = Unused
    /\ sse = Unused
    /\ field_conv = Unused
    /\ validation = Unused
    /\ http_session \in {HttpSession(l) : l \in PoolLimits}
    /\ second_pass = Unused
    /\ sequential = Unused

NotHttpSession ==
    <<passthrough, sse, field_conv, validation, second_pass, sequential>>

\* create_session finds a session that is open: it is returned
ReturnExisting(p) ==
    /\ http_session.callers[p].pc = "idle"
    /\ ~needs_session(http_session)
    /\ http_session' =
          [http_session EXCEPT
              !.callers[p] = [pc |-> "done",
                              result |-> http_session.session]]
    /\ UNCHANGED NotHttpSession
    /\ UNCHANGED NotLate

\* a small pool: the session is created and returned with no await between
\* the test and the assignment
CreateSmallPool(p) ==
    /\ http_session.callers[p].pc = "idle"
    /\ needs_session(http_session)
    /\ http_session.limit <= ProgressThreshold
    /\ http_session' =
          [http_session EXCEPT
              !.created = @ + 1,
              !.session = http_session.created + 1,
              !.callers[p] = [pc |-> "done",
                              result |-> http_session.created + 1]]
    /\ UNCHANGED NotHttpSession
    /\ UNCHANGED NotLate

\* a large pool: after the test, pbar.update(30) and the first
\* asyncio.sleep(0.05), where the coroutine is suspended
BeginLargePool(p) ==
    /\ http_session.callers[p].pc = "idle"
    /\ needs_session(http_session)
    /\ http_session.limit > ProgressThreshold
    /\ http_session' = [http_session EXCEPT !.callers[p].pc = "sleep1"]
    /\ UNCHANGED NotHttpSession
    /\ UNCHANGED NotLate

\* resumed from the first sleep: self.session = aiohttp.ClientSession(...),
\* then the second sleep
AssignSession(p) ==
    /\ http_session.callers[p].pc = "sleep1"
    /\ http_session' =
          [http_session EXCEPT
              !.created = @ + 1,
              !.session = http_session.created + 1,
              !.callers[p].pc = "sleep2"]
    /\ UNCHANGED NotHttpSession
    /\ UNCHANGED NotLate

\* resumed from the second sleep: return self.session, as it is by then
ReturnSession(p) ==
    /\ http_session.callers[p].pc = "sleep2"
    /\ http_session' =
          [http_session EXCEPT
              !.callers[p] = [pc |-> "done",
                              result |-> http_session.session]]
    /\ UNCHANGED NotHttpSession
    /\ UNCHANGED NotLate

\* close: the session, if there is one that is open, is closed
CloseSession ==
    /\ http_session.pc = "serving"
    /\ http_session.session # 0
    /\ http_session.session \notin http_session.closed
    /\ http_session' =
          [http_session EXCEPT !.closed = @ \cup {http_session.session}]
    /\ UNCHANGED NotHttpSession
    /\ UNCHANGED NotLate

NextSession ==
    \/ \E p \in Callers :
          \/ ReturnExisting(p)
          \/ CreateSmallPool(p)
          \/ BeginLargePool(p)
          \/ AssignSession(p)
          \/ ReturnSession(p)
    \/ CloseSession

SpecSession == InitSession /\ [][NextSession]_vars

\* C27: under every interleaving of concurrent create_session calls on
\* one OptimizedHTTPSession, the default pool of more than 100 connections
\* included, at most one ClientSession is created as long as none has been
\* closed, and all callers receive the same session.
AtMostOneSessionCreated ==
    (http_session.pc = "serving" /\ http_session.closed = {}) =>
        /\ http_session.created <= 1
        /\ \A p, q \in Callers :
              (http_session.callers[p].pc = "done"
                 /\ http_session.callers[q].pc = "done")
                 => http_session.callers[p].result
                       = http_session.callers[q].result

----------------------------------------------------------------------------
(***************************************************************************)
(* Part 8f.  tool_calls/leaked_tool_parser.py: extract_all_leaked_tools    *)
(* applied to the cleaned text a first application returned.               *)
(***************************************************************************)

\* the caller passes the cleaned text of the first call to a second call
ApplyAgain ==
    /\ lpc = "returned"
    /\ second_pass.pc = "idle"
    /\ second_pass' = [pc |-> "again", first_text |-> cleaned_text,
                       first_tools |-> Len(leaked_tools),
                       first_iterations |-> iterations]
    /\ text' = cleaned_text
    /\ leaked_tools' = <<>>
    /\ lpc' = "search"
    /\ origin' = [i \in 1..Len(cleaned_text) |-> i]
    /\ spans' = <<>>
    /\ iterations' = 0
    /\ existing_tool_calls' = <<>>
    /\ all_tool_calls' = <<>>
    /\ UNCHANGED cleaned_text
    /\ UNCHANGED <<passthrough, sse, field_conv, validation, http_session,
                   sequential>>
    /\ UNCHANGED <<decVars, contentVars, gemVars, respVars, irVars, imgVars,
                   regVars, chatVars>>

NextLeakedTwice ==
    \/ ExtractTool
    \/ ReplaceUnparseable
    \/ RaiseTypeError
    \/ ReturnTools
    \/ ApplyAgain

SpecLeakedTwice == InitLeakText /\ [][NextLeakedTwice]_vars

\* C28: the cleaned text extract_all_leaked_tools returns holds no
\* occurrence of the anchor "{'id': 'toolu_", so the extraction is
\* idempotent: applied to its own cleaned text it returns no tool call and
\* the same text.
CleanedTextHasNoAnchor ==
    lpc = "returned" =>
        /\ \A k \in 1..Len(cleaned_text) : ~IsAnchorAt(cleaned_text, k)
        /\ second_pass.pc = "again" =>
              /\ leaked_tools = <<>>
              /\ cleaned_text = second_pass.first_text
              /\ iterations = 0

\* the second application has returned, after a first one that extracted a
\* tool call and went through its loop more than once
SecondPassAfterExtraction ==
    /\ lpc = "returned"
    /\ second_pass.pc = "again"
    /\ second_pass.first_tools >= 1
    /\ second_pass.first_iterations >= 2

----------------------------------------------------------------------------
\* the <tool_call> blocks of a choice's content, none when it is None
BlockCount(ch) ==
    IF ch.isNone THEN 0 ELSE Len(FindAll(ch.content, 1))

\* the blocks convert_response_data took out of the content of choice i:
\* tool_call_pattern.sub removes every match, and the content is rewritten
\* only by it
StrippedBlocks(i) ==
    IF /\ response_data[i].content = response_in[i].content
       /\ response_data[i].isNone = response_in[i].isNone
    THEN 0
    ELSE BlockCount(response_in[i])

\* C29: convert_response_data removes a <tool_call> block from the
\* content only if it emitted a tool call for that block: in every choice
\* the number of blocks stripped equals the number of tool calls added.
StrippedBlocksEqualAddedCalls ==
    gpc = "returned" =>
        \A i \in 1..Len(response_data) :
            StrippedBlocks(i)
               = Len(response_data[i].tool_calls)
                    - Len(response_in[i].tool_calls)

----------------------------------------------------------------------------
(***************************************************************************)
(* Part 8g.  tool_calls/google_helpers.py:                                 *)
(* create_sequential_call_result_pairs, find_matching_tool_result,         *)
(* create_tool_result_mapping.                                             *)
(***************************************************************************)

\* bounds: tool calls of the assistant message, tool result messages
MaxPairCalls == 3
MaxPairResults == 3

\* the id of a tool call and the tool_call_id of a result; "" stands for a
\* missing or empty one
PairIds == {"", "a", "b"}

\* create_tool_result_mapping: for an id, the position in tool_results of
\* the last result that carries it, 0 when the id is not a key
tool_result_map(tool_results, id) ==
    IF id # "" /\ \E j \in 1..Len(tool_results) : tool_results[j] = id
    THEN CHOOSE j \in 1..Len(tool_results) :
            /\ tool_results[j] = id
            /\ \A k \in (j + 1)..Len(tool_results) : tool_results[k] # id
    ELSE 0

\* find_matching_tool_result: the position in tool_results of the result
\* found for the tool call at index (counted from 0), 0 for none, with the
\* match type
find_matching_tool_result(tool_call, tool_results, index) ==
    IF tool_result_map(tool_results, tool_call) # 0
    THEN [result |-> tool_result_map(tool_results, tool_call),
          match_type |-> "id"]
    ELSE IF index < Len(tool_results)
    THEN [result |-> index + 1, match_type |-> "position"]
    ELSE [result |-> 0, match_type |-> "none"]

\* the two messages appended for a pair: the assistant message with the
\* single tool call (base_content in the first turn only) and the result
\* message, named by its position in tool_results
AssistantMessage(idx, tool_call) ==
    [role |-> "assistant", has_base_content |-> idx = 0,
     tool_call |-> tool_call, result |-> 0]

ToolMessage(j, tool_results) ==
    [role |-> "tool", has_base_content |-> FALSE,
     tool_call |-> tool_results[j], result |-> j]

Sequential(tool_calls, tool_results) ==
    [pc |-> "loop", tool_calls |-> tool_calls, tool_results |-> tool_results,
     idx |-> 0, sequential_messages |-> <<>>, match_types |-> <<>>]

InitPairs ==
    /\ DecIdle
    /\ LeakIdle
    /\ ContentIdle
    /\ GemIdle
    /\ RespIdle
    /\ IrIdle
    /\ ImgIdle
    /\ RegIdle
    /\ ChatIdle
    /\ passthrough = Unused
    /\ sse = Unused
    /\ field_conv = Unused
    /\ validation = Unused
    /\ http_session = Unused
    /\ second_pass = Unused
    /\ sequential \in
          {Sequential(c, r) :
              c \in UNION {[1..n -> PairIds] : n \in 1..MaxPairCalls},
              r \in UNION {[1..n -> PairIds] : n \in 0..MaxPairResults}}

NotSequential ==
    <<passthrough, sse, field_conv, validation, http_session, second_pass>>

\* one turn of the for loop in which a result is found: the pair is appended
AppendPair ==
    /\ sequential.pc = "loop"
    /\ sequential.idx < Len(sequential.tool_calls)
    /\ LET tool_call == sequential.tool_calls[sequential.idx + 1]
           found == find_matching_tool_result(tool_call,
                                              sequential.tool_results,
                                              sequential.idx)
       IN /\ found.result # 0
          /\ sequential' =
                [sequential EXCEPT
                    !.idx = @ + 1,
                    !.match_types = Append(@, found.match_type),
                    !.sequential_messages =
                        @ \o <<AssistantMessage(sequential.idx, tool_call),
                               ToolMessage(found.result,
                                           sequential.tool_results)>>]
    /\ UNCHANGED NotSequential
    /\ UNCHANGED NotLate

\* one turn of the for loop in which no result is found: continue
SkipCall ==
    /\ sequential.pc = "loop"
    /\ sequential.idx < Len(sequential.tool_calls)
    /\ find_matching_tool_result(
          sequential.tool_calls[sequential.idx + 1],
          sequential.tool_results, sequential.idx).result = 0
    /\ sequential' = [sequential EXCEPT !.idx = @ + 1]
    /\ UNCHANGED NotSequential
    /\ UNCHANGED NotLate

\* return sequential_messages
ReturnPairs ==
    /\ sequential.pc = "loop"
    /\ sequential.idx = Len(sequential.tool_calls)
    /\ sequential' = [sequential EXCEPT !.pc = "returned"]
    /\ UNCHANGED NotSequential
    /\ UNCHANGED NotLate

NextPairs == AppendPair \/ SkipCall \/ ReturnPairs

SpecPairs == InitPairs /\ [][NextPairs]_vars

\* C30: create_sequential_call_result_pairs pairs each tool result
\* message with at most one tool call: no tool result message appears more
\* than once in the output, whether it was matched by id or by position.
EachResultPairedOnce ==
    sequential.pc = "returned" =>
        \A m, n \in 1..Len(sequential.sequential_messages) :
            (/\ m # n
             /\ sequential.sequential_messages[m].role = "tool"
             /\ sequential.sequential_messages[n].role = "tool")
               => sequential.sequential_messages[m].result
                     # sequential.sequential_messages[n].result

====
